---- MODULE Spec2Model ----
(***************************************************************************)
(* Model of the derivative code generator (src/src/libgencode, src/src/    *)
(* common): the expression code generator, the derivative, Jacobian and    *)
(* Hessian generators and the class assembler.  The generated file is the  *)
(* sequence `out` of written lines; a line is a record                     *)
(*     [k |-> the write site, a |-> the strings formatted into it,         *)
(*      ind |-> the number of tabs from the margin when it was written].   *)
(* Names, numbers and parameter lists are text, built by concatenation as  *)
(* the code builds them.                                                   *)
(***************************************************************************)
EXTENDS Integers, Sequences, FiniteSets, TLC

VARIABLES
    entry,           \* the generator whose gen_code is running
    var_list,        \* list of Variable objects: the function parameters
    diff_var_list,   \* list of Variable objects used in differentiation
    expr,            \* the sympy expression
    class_name,      \* class name handed to the generator ("" = none)
    package,         \* config["package"] ("" = none)
    nohessian,       \* config["nohessian"]
    modifier_list,   \* modifiers of the generated methods
    pc,              \* position inside gen_code
    first_var_ind,   \* loop counter / argument of the derivative generator
    second_var_ind,  \* loop counter / argument (None is -1)
    num_tab,         \* FileCodeWriter.__num_tab_from_margin
    out,             \* the lines written to the file so far
    program_txt,     \* the program text handed to parse_expr_specification
    environment,     \* expryacc.environment: name -> AstExprType
    for_loop_vars,   \* expryacc.for_loop_vars
    const_list,      \* the AstConstant objects reduced so far
    symbol_list,     \* the AstSymbol objects reduced so far
    ast_exprs,       \* the (name, AstExpression) pairs reduced so far
    sympy_locals,    \* parse_expr_specification: name -> sympy object
    dummy_count,     \* sympy's count of the Dummy symbols created so far
    error,           \* the exception that ended the parse ("" = none)
    runs,            \* what the earlier runs of this process ended with
    lexdata,         \* the characters handed to the lexer
    lexpos,          \* lexer.lexpos
    lineno,          \* lexer.lineno
    lextokens,       \* the tokens the lexer has returned
    printed,         \* what t_error has printed
    file_handler,    \* FileCodeWriter.__file_handler: none, open or closed
    parsed_args,     \* the parsed command line and the configuration file
    code_gen_config, \* what get_code_gen_config returned
    ast_expr,        \* an AstExpression
    sympy_str        \* what to_sympy_str returned for it

vars == <<entry, var_list, diff_var_list, expr, class_name, package,
          nohessian, modifier_list, pc, first_var_ind, second_var_ind,
          num_tab, out, program_txt, environment, for_loop_vars, const_list,
          symbol_list, ast_exprs, sympy_locals, dummy_count, error, runs,
          lexdata, lexpos, lineno, lextokens, printed, file_handler,
          parsed_args, code_gen_config, ast_expr, sympy_str>>

\* the state of the parser modules and of the lexer
parser_state == <<program_txt, environment, for_loop_vars, const_list,
                  symbol_list, ast_exprs, sympy_locals, dummy_count, error,
                  runs>>
lexer_state == <<lexdata, lexpos, lineno, lextokens, printed>>
\* the state of get_code_gen_config and of an AstExpression on its own
config_state == <<parsed_args, code_gen_config>>
ast_state == <<ast_expr, sympy_str>>

-----------------------------------------------------------------------------
(* Bounds of the model *)

\* largest vector size / matrix side of a declared variable
MaxDim == 2
\* largest number of declared variables
MaxVars == 2
\* the number of runs of the pipeline in one process
MaxRuns == 2
\* largest upper limit of a generated loop range
MaxRange == 4

-----------------------------------------------------------------------------
(* Small helpers on sequences and text *)

None == -1

RECURSIVE Join(_, _)
Join(strs, sep) ==
    IF Len(strs) = 0 THEN ""
    ELSE IF Len(strs) = 1 THEN strs[1]
    ELSE strs[1] \o sep \o Join(Tail(strs), sep)

RECURSIVE Flatten(_)
Flatten(seqs) ==
    IF Len(seqs) = 0 THEN <<>> ELSE seqs[1] \o Flatten(Tail(seqs))

Contains(seq, x) == \E i \in 1..Len(seq) : seq[i] = x

-----------------------------------------------------------------------------
(* common/vardef.py *)

NUMBER == "NUMBER"
VECTOR == "VECTOR"
MATRIX == "MATRIX"
VariableType == {NUMBER, VECTOR, MATRIX}

Variable(name, var_type, dimension) ==
    [name |-> name, var_type |-> var_type, dimension |-> dimension]

-----------------------------------------------------------------------------
(* sympy expression trees.  A node has its class (op), a name (symbols and *)
(* indexed matrices), a value (numbers) and its args.                      *)

Node(op, name, n, args) == [op |-> op, name |-> name, n |-> n, args |-> args]
Num(n) == Node("Number", "", n, <<>>)
Sym(name) == Node("Symbol", name, 0, <<>>)
\* Symbol(name, real=True) is Sym(name); the value of a symbol node tells
\* its assumptions: 0 real, 1 integer, 2 none
IntSym(name) == Node("Symbol", name, 1, <<>>)
PlainSym(name) == Node("Symbol", name, 2, <<>>)
\* Dummy(name): dummy_index tells two dummies of one name apart
Dummy(name, dummy_index) == Node("Dummy", name, dummy_index, <<>>)
MatrixSymbol(name, n, m) == Node("MatrixSymbol", name, 0, <<n, m>>)
\* MatrixElement(parent, i, j): args[1:] of the sympy node are the two indices
Elem(name, i, j) == Node("MatrixElement", name, 0, <<i, j>>)
Fn(op, args) == Node(op, "", 0, args)
\* a limit (counter, lower, upper) of a Sum or Product
Limit(counter, lo, hi) == Fn("Tuple", <<Sym(counter), lo, hi>>)

RECURSIVE FreeSymbols(_)
FreeSymbols(e) ==
    IF e.op = "Number" THEN {}
    ELSE IF e.op \in {"Symbol", "Dummy", "MatrixElement", "MatrixSymbol"}
        THEN {e.name} \cup UNION {FreeSymbols(e.args[i]) : i \in 1..Len(e.args)}
    ELSE IF e.op \in {"Sum", "Product"}
        THEN (FreeSymbols(e.args[1])
                \ {e.args[i].args[1].name : i \in 2..Len(e.args)})
             \cup UNION {FreeSymbols(e.args[i].args[2])
                            \cup FreeSymbols(e.args[i].args[3]) :
                         i \in 2..Len(e.args)}
    ELSE UNION {FreeSymbols(e.args[i]) : i \in 1..Len(e.args)}

\* sympy_expr.is_number
is_number(e) ==
    \/ e.op = "Number"
    \/ /\ e.op \notin {"Symbol", "MatrixElement", "Tuple"}
       /\ FreeSymbols(e) = {}

\* str(sympy_expr)
RECURSIVE Str(_)
Str(e) ==
    IF e.op = "Number" THEN ToString(e.n)
    ELSE IF e.op \in {"Symbol", "MatrixSymbol"} THEN e.name
    ELSE IF e.op = "Dummy" THEN "_" \o e.name
    ELSE IF e.op = "MatrixElement"
        THEN e.name \o "[" \o Str(e.args[1]) \o ", " \o Str(e.args[2]) \o "]"
    ELSE IF e.op = "Add"
        THEN Join([i \in 1..Len(e.args) |-> Str(e.args[i])], " + ")
    ELSE IF e.op = "Mul"
        THEN Join([i \in 1..Len(e.args) |-> Str(e.args[i])], "*")
    ELSE IF e.op = "Pow"
        THEN Str(e.args[1]) \o "**" \o Str(e.args[2])
    ELSE e.op \o "(" \o Join([i \in 1..Len(e.args) |-> Str(e.args[i])], ", ")
              \o ")"

\* str(sympy_expr.evalf()): the value as floating-point text
EvalfStr(e) ==
    IF e.op = "Number" THEN ToString(e.n) \o ".00000000000000"
    ELSE "evalf(" \o Str(e) \o ")"

\* str(int(sympy_expr.evalf())): the value as integer text
IntStr(e) ==
    IF e.op = "Number" THEN ToString(e.n)
    ELSE "int(evalf(" \o Str(e) \o "))"

-----------------------------------------------------------------------------
(* sympy's automatic simplification and diff, on the trees above *)

IsNum(e) == e.op = "Number"

RECURSIVE FlattenOp(_, _)
FlattenOp(op, args) ==
    IF Len(args) = 0 THEN <<>>
    ELSE (IF args[1].op = op THEN FlattenOp(op, args[1].args) ELSE <<args[1]>>)
         \o FlattenOp(op, Tail(args))

RECURSIVE SumNums(_)
SumNums(args) ==
    IF Len(args) = 0 THEN 0
    ELSE (IF IsNum(args[1]) THEN args[1].n ELSE 0) + SumNums(Tail(args))

RECURSIVE MulNums(_)
MulNums(args) ==
    IF Len(args) = 0 THEN 1
    ELSE (IF IsNum(args[1]) THEN args[1].n ELSE 1) * MulNums(Tail(args))

NonNums(args) == SelectSeq(args, LAMBDA a : ~IsNum(a))

\* Add(*args): nested sums are flattened and the numbers collected in front
MkAdd(args) ==
    LET flat == FlattenOp("Add", args)
        c    == SumNums(flat)
        rest == NonNums(flat)
        all  == IF c = 0 THEN rest ELSE <<Num(c)>> \o rest
    IN  IF Len(all) = 0 THEN Num(0)
        ELSE IF Len(all) = 1 THEN all[1]
        ELSE Fn("Add", all)

\* Mul(*args): nested products are flattened and the numbers collected
MkMul(args) ==
    LET flat == FlattenOp("Mul", args)
        c    == MulNums(flat)
        rest == NonNums(flat)
        all  == IF c = 1 THEN rest ELSE <<Num(c)>> \o rest
    IN  IF c = 0 THEN Num(0)
        ELSE IF Len(all) = 0 THEN Num(1)
        ELSE IF Len(all) = 1 THEN all[1]
        ELSE Fn("Mul", all)

\* Pow(b, e)
MkPow(b, e) ==
    IF IsNum(e) /\ e.n = 0 THEN Num(1)
    ELSE IF IsNum(e) /\ e.n = 1 THEN b
    ELSE Fn("Pow", <<b, e>>)

\* Sum(f, limits) / Product(f, limits) of a derivative: a zero summand is zero
MkLoop(op, f, limits) ==
    IF op = "Sum" /\ IsNum(f) /\ f.n = 0 THEN Num(0)
    ELSE Fn(op, <<f>> \o limits)

\* sympy.diff(e, v): v is a Symbol or a MatrixElement with literal indices
RECURSIVE diff(_, _)
diff(e, v) ==
    LET a == e.args
        d(i) == diff(a[i], v)
    IN
    IF e.op = "Number" THEN Num(0)
    ELSE IF e.op \in {"Symbol", "MatrixElement"}
        THEN IF e = v THEN Num(1) ELSE Num(0)
    ELSE IF e.op = "Add"
        THEN MkAdd([i \in 1..Len(a) |-> d(i)])
    ELSE IF e.op = "Mul"
        THEN MkAdd([i \in 1..Len(a) |->
                MkMul([j \in 1..Len(a) |-> IF j = i THEN d(i) ELSE a[j]])])
    ELSE IF e.op = "Pow" /\ IsNum(a[2])
        THEN MkMul(<<a[2], MkPow(a[1], Num(a[2].n - 1)), d(1)>>)
    ELSE IF e.op = "sin" THEN MkMul(<<Fn("cos", a), d(1)>>)
    ELSE IF e.op = "cos" THEN MkMul(<<Num(-1), Fn("sin", a), d(1)>>)
    ELSE IF e.op = "tan"
        THEN MkMul(<<MkAdd(<<MkPow(Fn("tan", a), Num(2)), Num(1)>>), d(1)>>)
    ELSE IF e.op = "cot"
        THEN MkMul(<<MkAdd(<<MkMul(<<Num(-1), MkPow(Fn("cot", a), Num(2))>>),
                             Num(-1)>>), d(1)>>)
    ELSE IF e.op = "log" THEN MkMul(<<MkPow(a[1], Num(-1)), d(1)>>)
    ELSE IF e.op = "Abs" THEN MkMul(<<Fn("sign", a), d(1)>>)
    ELSE IF e.op = "Sum" THEN MkLoop("Sum", d(1), Tail(a))
    ELSE IF v.name \notin FreeSymbols(e) THEN Num(0)
    ELSE Fn("Derivative", <<e, v>>)

-----------------------------------------------------------------------------
(* common/sympyutils.py *)

first_order_derivative(e, first_var) == diff(MkAdd(<<e, Num(1)>>), first_var)

second_order_derivative(e, first_var, second_var) ==
    first_order_derivative(first_order_derivative(e, first_var), second_var)

-----------------------------------------------------------------------------
(* libgencode/codegenutil.py: OperatorType *)

SINGLETON_OP_TYPE == {"NUMBER", "MATRIX", "SYMBOL"}

SYMPY_OPERATOR_TYPE_MAP ==
    [ MatrixElement |-> "MATRIX",
      Abs           |-> "ABS_REAL",
      Add           |-> "ADD_REAL",
      cos           |-> "COS_REAL",
      cot           |-> "COT_REAL",
      DiracDelta    |-> "DIRAC_DELTA_REAL",
      log           |-> "LOG_REAL",
      Mul           |-> "MUL_REAL",
      Pow           |-> "POW_REAL",
      Product       |-> "PRODUCT_LOOP",
      re            |-> "EXTRACT_REAL",
      sign          |-> "SIGN_REAL",
      sin           |-> "SIN_REAL",
      Sum           |-> "SUM_LOOP",
      Symbol        |-> "SYMBOL",
      tan           |-> "TAN_REAL" ]

\* the sympy classes whose is_Function is true and that the map does not list
UnmappedFunctions == {"exp", "asin"}

is_singleton_op(op_code) == op_code \in SINGLETON_OP_TYPE

\* exprcode.py calls it as codegenutil.get_operator_type
get_operator_type(sympy_expr) ==
    IF is_number(sympy_expr) THEN "NUMBER"
    ELSE IF sympy_expr.op \in DOMAIN SYMPY_OPERATOR_TYPE_MAP
        THEN SYMPY_OPERATOR_TYPE_MAP[sympy_expr.op]
    ELSE IF sympy_expr.op \in UnmappedFunctions THEN "CUSTOM_FUNC"
    ELSE "UNKNOWN"

\* get_java_func_declaration: modifiers, return type, name and parameters
java_type(var) ==
    IF var.var_type = VECTOR THEN "double[]"
    ELSE IF var.var_type = MATRIX THEN "double[][]"
    ELSE "double"

get_java_func_declaration(func_name, ret_type, vl, mods) ==
    LET param_str == Join([i \in 1..Len(vl) |->
                            java_type(vl[i]) \o " " \o vl[i].name], ", ")
        modifier_str == IF Join(mods, " ") = "" THEN ""
                        ELSE Join(mods, " ") \o " "
        rettype_str == IF ret_type = "" THEN "" ELSE ret_type \o " "
    IN  <<modifier_str, rettype_str, func_name, param_str>>

(* FileCodeWriter: a written line remembers the indentation it got *)
Line(k, a, ind) == [k |-> k, a |-> a, ind |-> ind]
tab(n) == n + 1
untab(n) == IF n > 0 THEN n - 1 ELSE n

-----------------------------------------------------------------------------
(* libgencode/exprcode.py: ExprCodeGenerator / JavaExprCodeGenerator.      *)
(* The generator state threaded through the recursion is                   *)
(*   [lines |-> the lines written, nt |-> __num_temp_var_used,             *)
(*    tab |-> the writer's indentation, ref |-> the returned name,         *)
(*    raised |-> an exception is propagating].                             *)

DEFAULT_TEMP_NAME == "__temp"

\* the truth value Python gets for `index > 0` when index is symbolic: the
\* installed sympy either refuses (TypeError) or answers structurally
RelOutcomes == {"TypeError", "True", "False"}

GenState(tab0) ==
    [lines |-> <<>>, nt |-> 0, tab |-> tab0, ref |-> "", raised |-> FALSE]

write(st, k, a) == [st EXCEPT !.lines = Append(@, Line(k, a, st.tab))]
raise(st) == [st EXCEPT !.raised = TRUE, !.ref = ""]

\* _get_nxt_temp_var_name: the name, and the counter advanced by one
nxt_temp_var_name(st) == DEFAULT_TEMP_NAME \o "_" \o ToString(st.nt)

\* self._var_dict[var_name]: the last variable of that name
has_var(vl, var_name) == \E i \in 1..Len(vl) : vl[i].name = var_name
var_dict(vl, var_name) ==
    LET last == CHOOSE i \in 1..Len(vl) :
                    /\ vl[i].name = var_name
                    /\ \A j \in (i + 1)..Len(vl) : vl[j].name # var_name
    IN  vl[last]

\* `index > 0` for one index of the tuple
index_positive(index, rel) ==
    IF IsNum(index) THEN (IF index.n > 0 THEN "True" ELSE "False") ELSE rel

\* "[%d]" % index: only a literal integer can be formatted
can_format_int(index) == IsNum(index)

\* __gen_arr_access_code: [code |-> text, raised |-> BOOLEAN]
gen_arr_access_code(var_obj, index_tuple, rel) ==
    IF var_obj.var_type = VECTOR THEN
        LET p1 == index_positive(index_tuple[1], rel)
            p2 == index_positive(index_tuple[2], rel)
            r1 == IF p1 = "True" THEN index_tuple[1] ELSE Num(0)
            real_ind == IF p2 = "True" THEN index_tuple[2] ELSE r1
        IN  IF p1 = "TypeError" \/ p2 = "TypeError" \/ ~can_format_int(real_ind)
            THEN [code |-> "", raised |-> TRUE]
            ELSE [code |-> var_obj.name \o "[" \o IntStr(real_ind) \o "]",
                  raised |-> FALSE]
    ELSE
        IF \E i \in 1..Len(index_tuple) : ~can_format_int(index_tuple[i])
        THEN [code |-> "", raised |-> TRUE]
        ELSE [code |-> var_obj.name \o
                       Join([i \in 1..Len(index_tuple) |->
                               "[" \o IntStr(index_tuple[i]) \o "]"], ""),
              raised |-> FALSE]

\* the loop headers of __gen_code_loop, one per limit, each followed by tab()
RECURSIVE loop_headers(_, _)
loop_headers(limits, st) ==
    IF Len(limits) = 0 THEN st
    ELSE
        LET loop_range == limits[1].args
            var_loop   == Str(loop_range[1])
            start_val  == IF get_operator_type(loop_range[2]) = "NUMBER"
                          THEN IntStr(loop_range[2]) ELSE Str(loop_range[2])
            end_val    == IF get_operator_type(loop_range[3]) = "NUMBER"
                          THEN IntStr(loop_range[3]) ELSE Str(loop_range[3])
            st1 == write(st, "for", <<var_loop, start_val, var_loop, end_val,
                                      var_loop, "1">>)
        IN  loop_headers(Tail(limits), [st1 EXCEPT !.tab = tab(@)])

\* the closing braces of __gen_code_loop, each preceded by untab()
RECURSIVE loop_closers(_, _)
loop_closers(k, st) ==
    IF k = 0 THEN st
    ELSE loop_closers(k - 1, write([st EXCEPT !.tab = untab(@)], "close", <<>>))

\* the one statement of a composite node: "" when there is no template
statement_rhs(expr_op_type, operand_names) ==
    IF expr_op_type = "POW_REAL"
        THEN "Math.pow(" \o operand_names[1] \o ", " \o operand_names[2] \o ")"
    ELSE IF expr_op_type = "LOG_REAL"
        THEN "Math.log(" \o operand_names[1] \o ")"
    ELSE IF expr_op_type = "SIN_REAL"
        THEN "Math.sin(" \o operand_names[1] \o ")"
    ELSE IF expr_op_type = "COS_REAL"
        THEN "Math.cos(" \o operand_names[1] \o ")"
    ELSE IF expr_op_type = "TAN_REAL"
        THEN "Math.tan(" \o operand_names[1] \o ")"
    ELSE IF expr_op_type = "COT_REAL"
        THEN "Math.sin(" \o operand_names[1] \o ") / Math.cos("
             \o operand_names[1] \o ")"
    ELSE IF expr_op_type = "ADD_REAL" THEN Join(operand_names, " + ")
    ELSE IF expr_op_type = "MUL_REAL" THEN Join(operand_names, " * ")
    ELSE ""

has_template(expr_op_type) ==
    expr_op_type \in {"POW_REAL", "LOG_REAL", "SIN_REAL", "COS_REAL",
                      "TAN_REAL", "COT_REAL", "ADD_REAL", "MUL_REAL"}

RECURSIVE gen_code_expr(_, _, _, _), gen_operands(_, _, _, _, _),
          gen_code_loop(_, _, _, _)

\* a faulty operand step that hands on the next unused name instead of the
\* name the operand returned
operand_done_next_name(vl, operands, acc, st1, rel) ==
    gen_operands(vl, operands, Append(acc, nxt_temp_var_name(st1)), st1, rel)

\* the name returned for the operand just lowered joins the operand names,
\* and the remaining operands follow
operand_done(vl, operands, acc, st1, rel) ==
    gen_operands(vl, operands, Append(acc, st1.ref), st1, rel)

\* [st |-> state, names |-> operand names]: the list comprehension over the
\* operands, left to right; an exception ends it
gen_operands(vl, operands, acc, st, rel) ==
    IF Len(operands) = 0 \/ st.raised THEN [st |-> st, names |-> acc]
    ELSE operand_done(vl, Tail(operands), acc,
                      gen_code_expr(vl, operands[1], st, rel), rel)

\* a faulty accumulator declaration that does not advance the counter
loop_init_no_advance(expr_op_type, st) ==
    write(st, "loop_init",
          <<nxt_temp_var_name(st),
            IF expr_op_type = "PRODUCT_LOOP" THEN "1.000000" ELSE "0.000000">>)

\* __gen_code_loop: the accumulator declaration
loop_init(expr_op_type, st) ==
    write([st EXCEPT !.nt = @ + 1], "loop_init",
          <<nxt_temp_var_name(st),
            IF expr_op_type = "PRODUCT_LOOP" THEN "1.000000" ELSE "0.000000">>)

\* __gen_code_loop: the accumulation statement and the closing braces, once
\* the body has been lowered into state st3
loop_accumulate(expr_op_type, temp_var_name, num_limits, st3) ==
    IF st3.raised THEN st3
    ELSE [loop_closers(num_limits,
                       write(st3, "accum",
                             <<temp_var_name,
                               IF expr_op_type = "PRODUCT_LOOP"
                               THEN "*=" ELSE "+=",
                               st3.ref>>))
            EXCEPT !.ref = temp_var_name]

\* __gen_code_loop
gen_code_loop(vl, sympy_expr, st, rel) ==
    loop_accumulate(
        get_operator_type(sympy_expr), nxt_temp_var_name(st),
        Len(sympy_expr.args) - 1,
        gen_code_expr(vl, sympy_expr.args[1],
                      loop_headers(Tail(sympy_expr.args),
                                   loop_init(get_operator_type(sympy_expr),
                                             st)),
                      rel))

\* a faulty statement step that replaces an operator without a template by
\* a constant instead of raising
gen_statement_fallback(expr_op_type, final_var_str, ops) ==
    IF ops.st.raised THEN ops.st
    ELSE [write(ops.st, "assign",
                <<final_var_str,
                  IF has_template(expr_op_type)
                  THEN statement_rhs(expr_op_type, ops.names) ELSE "0.0">>)
            EXCEPT !.ref = final_var_str]

\* _gen_code_expr, after the operands: the statement of a composite node, or
\* the exception for an operator without a template
gen_statement(expr_op_type, final_var_str, ops) ==
    IF ops.st.raised THEN ops.st
    ELSE IF ~has_template(expr_op_type) THEN raise(ops.st)
    ELSE [write(ops.st, "assign",
                <<final_var_str, statement_rhs(expr_op_type, ops.names)>>)
            EXCEPT !.ref = final_var_str]

\* a faulty singleton case that copies a symbol into a temporary first
gen_singleton_via_temp(vl, expr_op_type, sympy_expr, st, rel) ==
    IF expr_op_type = "NUMBER"
        THEN [st EXCEPT !.ref = EvalfStr(sympy_expr)]
    ELSE IF expr_op_type = "SYMBOL"
        THEN [write([st EXCEPT !.nt = @ + 1], "assign",
                    <<nxt_temp_var_name(st), Str(sympy_expr)>>)
                EXCEPT !.ref = nxt_temp_var_name(st)]
    ELSE raise(st)

\* _gen_code_expr, singleton case: the textual reference, nothing written
gen_singleton(vl, expr_op_type, sympy_expr, st, rel) ==
    IF expr_op_type = "NUMBER"
        THEN [st EXCEPT !.ref = EvalfStr(sympy_expr)]
    ELSE IF expr_op_type = "SYMBOL"
        THEN [st EXCEPT !.ref = Str(sympy_expr)]
    ELSE IF ~has_var(vl, sympy_expr.name) THEN raise(st)
    ELSE IF gen_arr_access_code(var_dict(vl, sympy_expr.name),
                                sympy_expr.args, rel).raised THEN raise(st)
    ELSE [st EXCEPT !.ref = gen_arr_access_code(
                                var_dict(vl, sympy_expr.name),
                                sympy_expr.args, rel).code]

\* _gen_code_expr
gen_code_expr(vl, sympy_expr, st, rel) ==
    IF is_singleton_op(get_operator_type(sympy_expr))
        THEN gen_singleton(vl, get_operator_type(sympy_expr), sympy_expr,
                           st, rel)
    ELSE IF get_operator_type(sympy_expr) \in {"SUM_LOOP", "PRODUCT_LOOP"}
        THEN gen_code_loop(vl, sympy_expr, st, rel)
    ELSE gen_statement(get_operator_type(sympy_expr), nxt_temp_var_name(st),
                       gen_operands(vl, sympy_expr.args, <<>>,
                                    [st EXCEPT !.nt = @ + 1], rel))

\* JavaExprCodeGenerator._gen_func_declaration
gen_func_declaration(vl, func_name, mods, tab0) ==
    write(GenState(tab0), "func_decl",
          get_java_func_declaration(func_name, "double", vl, mods) \o <<"">>)

\* JavaExprCodeGenerator._gen_return_code
gen_return_code(result_holder_name, st) ==
    write([write([st EXCEPT !.tab = tab(@)], "return",
                 <<result_holder_name>>)
            EXCEPT !.tab = untab(@)],
          "func_end", <<>>)

\* a faulty end of gen_code that leaves out the untab() before the return
gen_code_finish_no_untab(st1) ==
    IF st1.raised THEN st1
    ELSE gen_return_code(st1.ref, st1)

\* ExprCodeGenerator.gen_code after _gen_code_expr: untab() and the return
\* code, unless the exception is propagating
gen_code_finish(st1) ==
    IF st1.raised THEN st1
    ELSE gen_return_code(st1.ref, [st1 EXCEPT !.tab = untab(@)])

\* ExprCodeGenerator.gen_code
expr_gen_code(vl, sympy_expr, func_name, mods, tab0, rel) ==
    gen_code_finish(
        gen_code_expr(vl, sympy_expr,
                      [gen_func_declaration(vl, func_name, mods, tab0)
                            EXCEPT !.tab = tab(@)],
                      rel))

-----------------------------------------------------------------------------
(* libgencode/derivativecode.py: DerivativeCodeGenerator *)

DEFAULT_BASE_FUNC_NAME == "partialDerivative"

\* a faulty expansion, column by column, that the ordering property rejects
expand_var_column_major(var_obj) ==
    IF var_obj.var_type = NUMBER THEN <<Sym(var_obj.name)>>
    ELSE
        LET shape == IF var_obj.var_type = VECTOR
                     THEN <<var_obj.dimension[1].n, 1>>
                     ELSE <<var_obj.dimension[1].n, var_obj.dimension[2].n>>
        IN  [k \in 1..(shape[1] * shape[2]) |->
                Elem(var_obj.name, Num((k - 1) % shape[1]),
                                   Num((k - 1) \div shape[1]))]

\* the atoms of one variable, row-major; a vector of size s has shape (s, 1)
expand_var(var_obj) ==
    IF var_obj.var_type = NUMBER THEN <<Sym(var_obj.name)>>
    ELSE
        LET shape == IF var_obj.var_type = VECTOR
                     THEN <<var_obj.dimension[1].n, 1>>
                     ELSE <<var_obj.dimension[1].n, var_obj.dimension[2].n>>
        IN  [k \in 1..(shape[1] * shape[2]) |->
                Elem(var_obj.name, Num((k - 1) \div shape[2]),
                                   Num((k - 1) % shape[2]))]

\* xrange(shape[0]) and xrange(shape[1]) take integers only: a size that is
\* a sympy symbol makes the constructor raise
has_int_shape(var_obj) ==
    \A k \in 1..Len(var_obj.dimension) : IsNum(var_obj.dimension[k])

\* DerivativeCodeGenerator.__init__: self._expanded_diff_var_list
expanded_diff_var_list(dvl) ==
    Flatten([k \in 1..Len(dvl) |-> expand_var(dvl[k])])

get_num_expanded_diff_var(dvl) == Len(expanded_diff_var_list(dvl))

get_derivative_func_name(base_func_name, first, second, auto_add_suffix) ==
    IF ~auto_add_suffix THEN base_func_name
    ELSE base_func_name \o "_" \o ToString(first)
         \o (IF second # None THEN "_" \o ToString(second) ELSE "")

\* DerivativeCodeGenerator.gen_code(file_handler, first, second, auto)
derivative_gen_code(vl, dvl, e, mods, first, second, auto_add_suffix, tab0, rel) ==
    LET xs == expanded_diff_var_list(dvl)
        derivative_expr ==
            IF second = None
            THEN first_order_derivative(e, xs[first + 1])
            ELSE second_order_derivative(e, xs[first + 1], xs[second + 1])
        func_name == get_derivative_func_name(
                        DEFAULT_BASE_FUNC_NAME, first, second, auto_add_suffix)
    IN  expr_gen_code(vl, derivative_expr, func_name, mods, tab0, rel)

\* one iteration of the loop of gen_code_all_first_order
first_order_step(vl, dvl, e, mods, var_ind, tab0, rel) ==
    derivative_gen_code(vl, dvl, e, mods, var_ind, None, TRUE, tab0, rel)

\* one iteration of the inner loop of gen_code_all_second_order
second_order_step(vl, dvl, e, mods, first, second, tab0, rel) ==
    LET xs == expanded_diff_var_list(dvl)
        first_order_diff  == first_order_derivative(e, xs[first + 1])
        func_name         == get_derivative_func_name(
                                DEFAULT_BASE_FUNC_NAME, first, second, TRUE)
        second_order_diff == first_order_derivative(first_order_diff,
                                                    xs[second + 1])
    IN  expr_gen_code(vl, second_order_diff, func_name, mods, tab0, rel)

\* a faulty inner loop over every second index, which would also emit the
\* functions below the diagonal
second_order_next_full(first, second, n) ==
    IF second + 1 < n THEN <<first, second + 1>> ELSE <<first + 1, 0>>

\* the pair after (first, second) in `for first in xrange(n): for second in
\* xrange(first, n)`; first = n when the loops are over
second_order_next(first, second, n) ==
    IF second + 1 < n THEN <<first, second + 1>> ELSE <<first + 1, first + 1>>

-----------------------------------------------------------------------------
(* common/util.py is not part of the sources at hand *)

lower_first_char(s) ==
    IF s = "MathExpression" THEN "mathExpression"
    ELSE IF s = "Foo" THEN "foo"
    ELSE s

-----------------------------------------------------------------------------
(* libgencode/jacobiancode.py and libgencode/hessiancode.py *)

THROWS == " throws NoSuchMethodException, IllegalAccessException, java.lang.reflect.InvocationTargetException"

param_list(vl) == Join([i \in 1..Len(vl) |-> vl[i].name], ", ")

RECURSIVE write_all(_, _, _)
write_all(st, k, as) ==
    IF Len(as) = 0 THEN st ELSE write_all(write(st, k, as[1]), k, Tail(as))

\* a faulty type list that takes every parameter for a double
arg_class_lines_all_double(vl) ==
    [arg_ind \in 1..Len(vl) |->
        <<"argClasses", ToString(arg_ind - 1), "double">>]

\* the "Argument type list" lines shared by both reflective bodies
arg_class_lines(vl) ==
    [arg_ind \in 1..Len(vl) |->
        <<"argClasses", ToString(arg_ind - 1), java_type(vl[arg_ind])>>]

invoked_obj(mods) == IF Contains(mods, "static") THEN "null" ELSE "this"

\* __gen_jacobian_declaration / __gen_hessian_declaration
gen_declaration(st, func_name, ret_type, vl, mods, cname) ==
    write(st, "func_decl",
          get_java_func_declaration(func_name, ret_type, vl, mods)
            \o <<IF cname # "" THEN THROWS ELSE "">>)

\* a faulty body whose slot k calls the function of index k + 1
gen_simple_jacobian_body_shifted(st, vl, dvl) ==
    write(write_all(write(st, "new_array",
                          <<"__temp",
                            ToString(get_num_expanded_diff_var(dvl))>>),
                    "slot_assign",
                    [k \in 1..get_num_expanded_diff_var(dvl) |->
                        <<"__temp", ToString(k - 1),
                          get_derivative_func_name(DEFAULT_BASE_FUNC_NAME,
                                                   k, None, TRUE),
                          param_list(vl)>>]),
          "return", <<"__temp">>)

\* __gen_simple_jacobian_body
gen_simple_jacobian_body(st, vl, dvl) ==
    LET num_diff_var == get_num_expanded_diff_var(dvl)
        st1 == write(st, "new_array", <<"__temp", ToString(num_diff_var)>>)
        st2 == write_all(st1, "slot_assign",
                 [k \in 1..num_diff_var |->
                    <<"__temp", ToString(k - 1),
                      get_derivative_func_name(DEFAULT_BASE_FUNC_NAME,
                                               k - 1, None, TRUE),
                      param_list(vl)>>])
    IN  write(st2, "return", <<"__temp">>)

\* __gen_reflect_jacobian_body
gen_reflect_jacobian_body(st, vl, dvl, mods, cname) ==
    LET num_diff_var == get_num_expanded_diff_var(dvl)
        main_class_var_name == lower_first_char(cname) \o "Class"
        st1 == write(st, "new_array", <<"__temp", ToString(num_diff_var)>>)
        st2 == write(st1, "class_decl", <<main_class_var_name, cname>>)
        st3 == write(st2, "arg_classes_new",
                     <<"argClasses", ToString(Len(vl))>>)
        st4 == write_all(st3, "arg_class", arg_class_lines(vl))
        st5 == write(st4, "for_lt", <<"i", "0", ToString(num_diff_var)>>)
        st6 == write([st5 EXCEPT !.tab = tab(@)], "method_name",
                     <<"methodName", DEFAULT_BASE_FUNC_NAME \o "_", "i">>)
        st7 == write(st6, "get_method",
                     <<"method", main_class_var_name, "methodName",
                       "argClasses">>)
        st8 == write(st7, "invoke_slot",
                     <<"__temp", "i", "method", invoked_obj(mods),
                       param_list(vl)>>)
        st9 == write([st8 EXCEPT !.tab = untab(@)], "close", <<>>)
    IN  write(st9, "return", <<"__temp">>)

\* _gen_jacobian_code
gen_jacobian_code(vl, dvl, mods, cname, func_name, tab0) ==
    LET st0 == gen_declaration(GenState(tab0), func_name, "double[]", vl,
                               mods, cname)
        st1 == [st0 EXCEPT !.tab = tab(@)]
        st2 == IF cname # "" THEN gen_reflect_jacobian_body(st1, vl, dvl,
                                                            mods, cname)
               ELSE gen_simple_jacobian_body(st1, vl, dvl)
    IN  write([st2 EXCEPT !.tab = untab(@)], "method_close", <<>>)

\* a faulty iteration that mirrors the diagonal cells too
simple_hessian_cell_mirror_always(vl, i, j) ==
    <<[k |-> "cell_assign",
       a |-> <<"__temp", ToString(i), ToString(j),
               get_derivative_func_name(DEFAULT_BASE_FUNC_NAME, i, j, TRUE),
               param_list(vl)>>],
      [k |-> "cell_copy",
       a |-> <<"__temp", ToString(j), ToString(i),
               "__temp", ToString(i), ToString(j)>>]>>

\* the lines of one iteration (i, j) of the loops of __gen_simple_hessian_body
simple_hessian_cell(vl, i, j) ==
    <<[k |-> "cell_assign",
       a |-> <<"__temp", ToString(i), ToString(j),
               get_derivative_func_name(DEFAULT_BASE_FUNC_NAME, i, j, TRUE),
               param_list(vl)>>]>>
    \o (IF i = j THEN <<>>
        ELSE <<[k |-> "cell_copy",
                a |-> <<"__temp", ToString(j), ToString(i),
                        "__temp", ToString(i), ToString(j)>>]>>)

\* the inner loop `for j in xrange(i, num_diff_var)` of one row i
simple_hessian_row(vl, i, n) ==
    Flatten([jj \in 1..(n - i) |-> simple_hessian_cell(vl, i, i + jj - 1)])

\* the outer loop `for i in xrange(num_diff_var)`
simple_hessian_cells(vl, n) ==
    Flatten([ii \in 1..n |-> simple_hessian_row(vl, ii - 1, n)])

RECURSIVE write_lines(_, _)
write_lines(st, ls) ==
    IF Len(ls) = 0 THEN st
    ELSE write_lines(write(st, ls[1].k, ls[1].a), Tail(ls))

\* __gen_simple_hessian_body
gen_simple_hessian_body(st, vl, dvl) ==
    LET num_diff_var == get_num_expanded_diff_var(dvl)
        st1 == write(st, "new_matrix", <<"__temp", ToString(num_diff_var),
                                         ToString(num_diff_var)>>)
        st2 == write_lines(st1, simple_hessian_cells(vl, num_diff_var))
    IN  write(st2, "return", <<"__temp">>)

\* __gen_reflect_hessian_body
gen_reflect_hessian_body(st, vl, dvl, mods, cname) ==
    LET num_diff_var == get_num_expanded_diff_var(dvl)
        main_class_var_name == lower_first_char(cname) \o "Class"
        st1 == write(st, "new_matrix", <<"__temp", ToString(num_diff_var),
                                         ToString(num_diff_var)>>)
        st2 == write(st1, "class_decl", <<main_class_var_name, cname>>)
        st3 == write(st2, "arg_classes_new",
                     <<"argClasses", ToString(Len(vl))>>)
        st4 == write_all(st3, "arg_class", arg_class_lines(vl))
        st5 == write(st4, "for_lt", <<"i", "0", ToString(num_diff_var)>>)
        st6 == write([st5 EXCEPT !.tab = tab(@)], "for_lt",
                     <<"j", "i", ToString(num_diff_var)>>)
        st7 == write([st6 EXCEPT !.tab = tab(@)], "method_name",
                     <<"methodName", DEFAULT_BASE_FUNC_NAME \o "_", "i",
                       "_", "j">>)
        st8 == write(st7, "get_method",
                     <<"method", main_class_var_name, "methodName",
                       "argClasses">>)
        st9 == write(st8, "invoke_cell",
                     <<"__temp", "i", "j", "method", invoked_obj(mods),
                       param_list(vl)>>)
        st10 == write(st9, "if_ne", <<"i", "j">>)
        st11 == write([st10 EXCEPT !.tab = tab(@)], "cell_copy",
                      <<"__temp", "j", "i", "__temp", "i", "j">>)
        st12 == write([st11 EXCEPT !.tab = untab(@)], "close", <<>>)
        st13 == write([st12 EXCEPT !.tab = untab(@)], "close", <<>>)
        st14 == write([st13 EXCEPT !.tab = untab(@)], "close", <<>>)
    IN  write(st14, "return", <<"__temp">>)

\* a faulty method that forgets to go back one level before its closing brace
gen_hessian_code_no_untab(vl, dvl, mods, cname, func_name, tab0) ==
    LET st0 == gen_declaration(GenState(tab0), func_name, "double[][]", vl,
                               mods, cname)
        st1 == [st0 EXCEPT !.tab = tab(@)]
    IN  write(IF cname # "" THEN gen_reflect_hessian_body(st1, vl, dvl,
                                                          mods, cname)
              ELSE gen_simple_hessian_body(st1, vl, dvl),
              "method_close", <<>>)

\* _gen_hessian_code
gen_hessian_code(vl, dvl, mods, cname, func_name, tab0) ==
    LET st0 == gen_declaration(GenState(tab0), func_name, "double[][]", vl,
                               mods, cname)
        st1 == [st0 EXCEPT !.tab = tab(@)]
        st2 == IF cname # "" THEN gen_reflect_hessian_body(st1, vl, dvl,
                                                           mods, cname)
               ELSE gen_simple_hessian_body(st1, vl, dvl)
    IN  write([st2 EXCEPT !.tab = untab(@)], "method_close", <<>>)

-----------------------------------------------------------------------------
(* libgencode/exprclasscode.py: ExprClassCodeGenerator *)

CODE_GENERATOR_VERSION == "0.0.1"
REPOSITORY_LINK == "https://github.com/truongduy134/derivative-code-generator"
DEFAULT_CLASS_NAME == "MathExpression"
DEFAULT_EVAL_FUNC_NAME == "eval"
DEFAULT_HESSIAN_FUNC_NAME == "hessian"
DEFAULT_JACOBIAN_FUNC_NAME == "jacobian"

\* ExprClassCodeGenerator.__init__: config["classname"]
config_classname(cname) == IF cname = "" THEN DEFAULT_CLASS_NAME ELSE cname

\* a faulty header that opens the class before the provenance comment
gen_code_header_lines_class_first(st, pkg, cname) ==
    write(write(st, "class_open", <<cname>>), "header_comment",
          <<CODE_GENERATOR_VERSION, REPOSITORY_LINK,
            "DO NOT EDIT UNLESS YOU ARE SURE THAT YOU KNOW WHAT YOU ARE DOING">>)

\* JavaExprClassCodeGenerator._gen_code_header
gen_code_header_lines(st, pkg, cname) ==
    LET st1 == write(st, "header_comment",
                     <<CODE_GENERATOR_VERSION, REPOSITORY_LINK,
                       "DO NOT EDIT UNLESS YOU ARE SURE THAT YOU KNOW WHAT YOU ARE DOING">>)
        st2 == IF pkg # "" THEN write(st1, "package", <<pkg>>) ELSE st1
    IN  write(st2, "class_open", <<cname>>)

-----------------------------------------------------------------------------
(* The inputs of a run *)

\* the variables a program may declare
VarUniverse ==
    {Variable("x", NUMBER, <<>>), Variable("y", NUMBER, <<>>)}
    \cup {Variable("v", VECTOR, <<Num(d)>>) : d \in 1..MaxDim}
    \cup {Variable("m", MATRIX, <<Num(r), Num(c)>>) :
                r \in 1..MaxDim, c \in 1..MaxDim}

\* lists of variables with pairwise distinct names
VarLists ==
    UNION {{vl \in [1..k -> VarUniverse] :
                \A i, j \in 1..k : i # j => vl[i].name # vl[j].name} :
           k \in 0..MaxVars}

\* var_list without its k-th variable (declared `: nodiff`); k = 0 keeps all
WithoutVar(vl, k) == SelectSeq([i \in 1..Len(vl) |-> [v |-> vl[i], i |-> i]],
                               LAMBDA p : p.i # k)
DiffVarList(vl, k) == [i \in 1..Len(WithoutVar(vl, k)) |-> WithoutVar(vl, k)[i].v]

\* all the atoms of the parameters, in order
Atoms(vl) == expanded_diff_var_list(vl)

\* expressions over the parameters that sympy can differentiate
DiffExprs(vl) ==
    IF Len(Atoms(vl)) = 0 THEN {Num(3)}
    ELSE
        LET a1 == Atoms(vl)[1]
            a2 == Atoms(vl)[Len(Atoms(vl))]
            prod == IF a1 = a2 THEN Fn("Pow", <<a1, Num(2)>>)
                    ELSE Fn("Mul", <<a1, a2>>)
        IN  { a1,
              Fn("Add", <<prod, Fn("sin", <<a1>>)>>),
              Fn("Pow", <<a2, Num(3)>>),
              Fn("Abs", <<a1>>),
              Fn("Sum", <<Fn("Mul", <<Sym("i"), Fn("Pow", <<a2, Num(2)>>)>>),
                          Limit("i", Num(0), Num(MaxRange))>>) }

\* the operators a lowered expression is built from: with a template, mapped
\* without a template, unmapped functions, and a class sympy does not map
UnaryOps == {"sin", "cos", "tan", "cot", "log", "Abs", "sign", "exp",
             "Derivative"}

\* the limits of a loop: one literal range, or two with a symbolic bound
LimitLists ==
    { <<Limit("i", Num(0), Num(MaxRange))>>,
      <<Limit("i", Num(0), Num(MaxRange)), Limit("j", Num(1), Sym("n"))>> }

\* the leaves: literals, symbols, elements with literal indices, an element
\* of an undeclared matrix, and vector elements indexed by a loop counter
Leaves(vl) ==
    {Num(3), Sym("z"), Elem("w", Num(0), Num(0))}
    \cup {Atoms(vl)[k] : k \in {1, Len(Atoms(vl))} \cap DOMAIN Atoms(vl)}
    \cup {Elem(vl[k].name, Sym("i"), Num(0)) :
                k \in {n \in 1..Len(vl) : vl[n].var_type = VECTOR}}

\* expressions handed to the expression code generator alone
LowerExprs(vl) ==
    Leaves(vl)
    \cup {Fn(op, <<a>>) : op \in UnaryOps, a \in Leaves(vl) \ {Num(3)}}
    \cup {Fn("Pow", <<a, Num(2)>>) : a \in Leaves(vl) \ {Num(3)}}
    \cup {Fn(op, <<Num(3), a, Fn(f, <<a>>)>>) :
                op \in {"Add", "Mul"}, f \in {"sin", "Abs"},
                a \in Leaves(vl) \ {Num(3)}}
    \cup {Fn("cos", <<Fn("Add", <<Fn("log", <<Sym("z")>>), Fn(f, <<a>>)>>)>>) :
                f \in {"tan", "exp"}, a \in Leaves(vl) \ {Num(3)}}
    \cup {Fn(op, <<body>> \o limits) :
                op \in {"Sum", "Product"}, limits \in LimitLists,
                body \in Leaves(vl)
                         \cup {Fn("Mul", <<Sym("i"), Fn("tan", <<Sym("z")>>)>>),
                               Fn("Abs", <<Sym("i")>>),
                               Fn("Sum", <<Sym("k"),
                                           Limit("k", Num(1), Sym("i"))>>)}}

Entries == {"ExprClass", "Jacobian", "Hessian", "Derivative", "Expr"}

\* the parser modules as they are after import: nothing parsed yet
fresh_parser ==
    /\ program_txt = <<>>
    /\ environment = [name \in {} |-> name]
    /\ for_loop_vars = <<>>
    /\ const_list = <<>>
    /\ symbol_list = <<>>
    /\ ast_exprs = <<>>
    /\ sympy_locals = [name \in {} |-> name]
    /\ dummy_count = 0
    /\ error = ""
    /\ runs = <<>>

\* no command line has been read and no expression built on its own
fresh_tools ==
    /\ parsed_args = <<>>
    /\ code_gen_config = <<>>
    /\ ast_expr = <<>>
    /\ sympy_str = <<>>

\* the lexer as it is after import, with no input
fresh_lexer ==
    /\ lexdata = <<>>
    /\ lexpos = 0
    /\ lineno = 1
    /\ lextokens = <<>>
    /\ printed = <<>>

Modifiers == {<<>>, <<"public", "static">>}

Init ==
    /\ entry \in Entries
    /\ var_list \in VarLists
    /\ \E k \in (IF entry = "Expr" THEN {0} ELSE 0..Len(var_list)) :
            diff_var_list = DiffVarList(var_list, k)
    /\ expr \in IF entry = "Expr" THEN LowerExprs(var_list)
                 ELSE DiffExprs(var_list)
    /\ class_name \in IF entry = "Expr" THEN {""} ELSE {"", "Foo"}
    /\ package \in IF entry = "ExprClass" /\ class_name = "Foo"
                   THEN {"", "pkg"} ELSE {""}
    /\ nohessian \in IF entry = "ExprClass" THEN BOOLEAN ELSE {FALSE}
    /\ modifier_list \in IF entry = "ExprClass" THEN {<<"public", "static">>}
                         ELSE Modifiers
    /\ pc = CASE entry = "ExprClass"  -> "header"
              [] entry = "Jacobian"   -> "jacobian"
              [] entry = "Hessian"    -> "hessian"
              [] entry = "Derivative" -> "derivative"
              [] entry = "Expr"       -> "expr"
    /\ IF entry = "Derivative"
       THEN /\ get_num_expanded_diff_var(diff_var_list) > 0
            /\ first_var_ind \in
                    0..(get_num_expanded_diff_var(diff_var_list) - 1)
            /\ second_var_ind \in
                    {None} \cup
                    0..(get_num_expanded_diff_var(diff_var_list) - 1)
       ELSE first_var_ind = 0 /\ second_var_ind = 0
    /\ num_tab = 0
    /\ out = <<>>
    /\ file_handler = "open"
    /\ fresh_tools
    /\ fresh_parser
    /\ fresh_lexer

inputs == <<entry, var_list, diff_var_list, expr, class_name, package,
            nohessian, modifier_list>>

n_diff == get_num_expanded_diff_var(diff_var_list)

\* the class name the Jacobian and Hessian generators are constructed with
generator_class_name ==
    IF entry = "ExprClass" THEN config_classname(class_name) ELSE class_name

\* what a generator wrote reaches the file; an exception ends the run
emit(st, next_pc) ==
    /\ out' = out \o st.lines
    /\ num_tab' = st.tab
    /\ pc' = IF st.raised THEN "raised" ELSE next_pc

\* ExprClassCodeGenerator.gen_code: _gen_code_header, tab(), constructor
gen_code_header ==
    /\ pc = "header"
    /\ LET st == gen_code_header_lines(GenState(num_tab), package,
                                       config_classname(class_name))
       IN  /\ out' = out \o st.lines
           /\ num_tab' = tab(st.tab)
    /\ pc' = "eval"
    /\ UNCHANGED <<inputs, first_var_ind, second_var_ind>>
    /\ UNCHANGED <<parser_state, lexer_state, config_state, ast_state,
                   file_handler>>

\* JavaExprClassCodeGenerator._gen_code_eval
gen_code_eval ==
    /\ pc = "eval"
    /\ \E rel \in RelOutcomes :
        emit(expr_gen_code(var_list, expr, DEFAULT_EVAL_FUNC_NAME,
                                <<"public", "static">>, num_tab, rel),
             "new_jacobian")
    /\ first_var_ind' = 0
    /\ UNCHANGED <<inputs, second_var_ind>>
    /\ UNCHANGED <<parser_state, lexer_state, config_state, ast_state,
                   file_handler>>

\* _gen_code_jacobian and _gen_code_hessian construct their generator, whose
\* constructor builds the derivative generator and its expanded list
get_derivative_code_generator ==
    /\ pc \in {"new_jacobian", "new_hessian"}
    /\ pc' = IF \A k \in 1..Len(diff_var_list) :
                    has_int_shape(diff_var_list[k])
             THEN (IF pc = "new_jacobian" THEN "jacobian" ELSE "hessian")
             ELSE "raised"
    /\ UNCHANGED <<inputs, first_var_ind, second_var_ind, num_tab, out>>
    /\ UNCHANGED <<parser_state, lexer_state, config_state, ast_state,
                   file_handler>>

\* JacobianCodeGenerator.gen_code: one function of gen_code_all_first_order
gen_code_all_first_order ==
    /\ pc = "jacobian"
    /\ first_var_ind < n_diff
    /\ \E rel \in RelOutcomes :
        emit(first_order_step(var_list, diff_var_list, expr,
                                   modifier_list, first_var_ind, num_tab, rel),
             "jacobian")
    /\ first_var_ind' = first_var_ind + 1
    /\ UNCHANGED <<inputs, second_var_ind>>
    /\ UNCHANGED <<parser_state, lexer_state, config_state, ast_state,
                   file_handler>>

\* JacobianCodeGenerator.gen_code: _gen_jacobian_code, after the functions
gen_jacobian ==
    /\ pc = "jacobian"
    /\ first_var_ind = n_diff
    /\ LET st == gen_jacobian_code(var_list, diff_var_list, modifier_list,
                                   generator_class_name,
                                   DEFAULT_JACOBIAN_FUNC_NAME, num_tab)
       IN  /\ out' = out \o st.lines
           /\ num_tab' = st.tab
    /\ pc' = IF entry = "Jacobian" THEN "done"
             ELSE IF nohessian THEN "footer" ELSE "new_hessian"
    /\ first_var_ind' = 0
    /\ second_var_ind' = 0
    /\ UNCHANGED inputs
    /\ UNCHANGED <<parser_state, lexer_state, config_state, ast_state,
                   file_handler>>

\* HessianCodeGenerator.gen_code: one function of gen_code_all_second_order
gen_code_all_second_order ==
    /\ pc = "hessian"
    /\ first_var_ind < n_diff
    /\ \E rel \in RelOutcomes :
        emit(second_order_step(var_list, diff_var_list, expr,
                                    modifier_list, first_var_ind,
                                    second_var_ind, num_tab, rel),
             "hessian")
    /\ first_var_ind' =
            second_order_next(first_var_ind, second_var_ind, n_diff)[1]
    /\ second_var_ind' =
            second_order_next(first_var_ind, second_var_ind, n_diff)[2]
    /\ UNCHANGED inputs
    /\ UNCHANGED <<parser_state, lexer_state, config_state, ast_state,
                   file_handler>>

\* HessianCodeGenerator.gen_code: _gen_hessian_code, after the functions
gen_hessian ==
    /\ pc = "hessian"
    /\ first_var_ind = n_diff
    /\ LET st == gen_hessian_code(var_list, diff_var_list, modifier_list,
                                  generator_class_name,
                                  DEFAULT_HESSIAN_FUNC_NAME, num_tab)
       IN  /\ out' = out \o st.lines
           /\ num_tab' = st.tab
    /\ pc' = IF entry = "Hessian" THEN "done" ELSE "footer"
    /\ UNCHANGED <<inputs, first_var_ind, second_var_ind>>
    /\ UNCHANGED <<parser_state, lexer_state, config_state, ast_state,
                   file_handler>>

\* ExprClassCodeGenerator.gen_code: untab(), _gen_code_footer
gen_code_footer ==
    /\ pc = "footer"
    /\ out' = Append(out, Line("class_close", <<>>, untab(num_tab)))
    /\ num_tab' = untab(num_tab)
    /\ pc' = "done"
    /\ UNCHANGED <<inputs, first_var_ind, second_var_ind>>
    /\ UNCHANGED <<parser_state, lexer_state, config_state, ast_state,
                   file_handler>>

\* DerivativeCodeGenerator.gen_code(file_handler, first, second, True)
gen_code_derivative ==
    /\ pc = "derivative"
    /\ \E rel \in RelOutcomes :
        emit(derivative_gen_code(var_list, diff_var_list, expr,
                                      modifier_list, first_var_ind,
                                      second_var_ind, TRUE, num_tab, rel),
             "done")
    /\ UNCHANGED <<inputs, first_var_ind, second_var_ind>>
    /\ UNCHANGED <<parser_state, lexer_state, config_state, ast_state,
                   file_handler>>

\* JavaExprCodeGenerator.gen_code on its own
gen_code ==
    /\ pc = "expr"
    /\ \E rel \in RelOutcomes :
        emit(expr_gen_code(var_list, expr, DEFAULT_EVAL_FUNC_NAME,
                           modifier_list, num_tab, rel),
             "done")
    /\ UNCHANGED <<inputs, first_var_ind, second_var_ind>>
    /\ UNCHANGED <<parser_state, lexer_state, config_state, ast_state,
                   file_handler>>

Next ==
    \/ gen_code
    \/ gen_code_header
    \/ gen_code_eval
    \/ get_derivative_code_generator
    \/ gen_code_all_first_order
    \/ gen_jacobian
    \/ gen_code_all_second_order
    \/ gen_hessian
    \/ gen_code_footer
    \/ gen_code_derivative

Spec == Init /\ [][Next]_vars

-----------------------------------------------------------------------------
(* parsing/astdef.py *)

\* a Python str; a Python int is a number node
PyStr(s) == Node("str", s, 0, <<>>)

AstExprType_NUMBER == 0
AstExprType_VECTOR == 1
AstExprType_MATRIX == 2

AstExprType(type, dimension) == [type |-> type, dimension |-> dimension]

is_single_member(t) ==
    IF t.type = AstExprType_NUMBER THEN TRUE
    ELSE IF t.type = AstExprType_VECTOR THEN t.dimension[1] = Num(1)
    ELSE t.dimension[1] = Num(1) /\ t.dimension[2] = Num(1)

AstSymbolFlag_EQUIVALENT == 0
AstSymbolFlag_NORMAL == 1
AstSymbolFlag_NO_DIFF == 2
AstSymbolFlag_USED_IN_LOOP == 3

AstSymbol(name, type_info, flag) ==
    [name |-> name, type_info |-> type_info, flag |-> flag]

AstConstant(name, value) == [name |-> name, value |-> value]

\* AstOperator: the operators the programs of the model use
func_ops == {"ABS", "SQRT", "SIN", "COS", "TAN", "COT", "LN", "NORM",
             "TRANSPOSE"}

get_func_op(op_str) ==
    CASE op_str = "abs" -> "ABS"
      [] op_str = "sin" -> "SIN"
      [] op_str = "cos" -> "COS"
      [] op_str = "ln"  -> "LN"

get_binary_op(op_str) ==
    CASE op_str = "+" -> "ADD"
      [] op_str = "*" -> "MUL"
      [] op_str = "." -> "DOT"

\* a row of a matrix literal: a Python list inside the list of operands
Row(exprs) == [row |-> exprs]
is_list(operand) == "row" \in DOMAIN operand

\* dimension[::-1]
Reversed(dimension) ==
    [k \in 1..Len(dimension) |-> dimension[Len(dimension) + 1 - k]]

\* AstExpression.__set_expr_type, before the size-one rule
set_expr_type(operator, operands) ==
    IF operator = "SYMBOL" THEN operands[1].type_info
    ELSE IF operator = "EXPR_COLLECTION"
        THEN IF is_list(operands[1])
             THEN AstExprType(AstExprType_MATRIX,
                              <<Num(Len(operands)),
                                Num(Len(operands[1].row))>>)
             ELSE AstExprType(AstExprType_VECTOR,
                              <<Num(Len(operands)), Num(1)>>)
    ELSE IF operator = "UMINUS" THEN operands[1].expr_type
    ELSE IF operator \in {"TRANSPOSE", "TRANSPOSE_SHORT"}
        THEN AstExprType(AstExprType_MATRIX,
                         Reversed(operands[1].expr_type.dimension))
    ELSE IF operator = "NORM" THEN AstExprType(AstExprType_NUMBER, <<>>)
    ELSE IF operator \in func_ops THEN operands[1].expr_type
    ELSE IF operator \in {"DOT", "INDEXING"}
        THEN AstExprType(AstExprType_NUMBER, <<>>)
    ELSE IF operator = "MUL"
        THEN IF operands[1].expr_type.type = AstExprType_NUMBER
             THEN operands[2].expr_type
             ELSE IF operands[2].expr_type.type = AstExprType_NUMBER
             THEN operands[1].expr_type
             ELSE AstExprType(AstExprType_MATRIX,
                              <<operands[1].expr_type.dimension[1],
                                operands[2].expr_type.dimension[2]>>)
    ELSE IF operator \in {"LOOP_SUM", "LOOP_PRODUCT"}
        THEN operands[1].expr_type
    ELSE IF operator = "RANGE"
        THEN AstExprType(AstExprType_VECTOR, <<Num(2), Num(1)>>)
    ELSE operands[1].expr_type

\* a vector or matrix of one element is typed as a number
typed(operator, operands, t) ==
    [operator |-> operator, operands |-> operands,
     expr_type |-> IF t.type # AstExprType_NUMBER /\ is_single_member(t)
                   THEN AstExprType(AstExprType_NUMBER, <<>>) ELSE t,
     size_one_mat |-> t.type # AstExprType_NUMBER /\ is_single_member(t)]

AstExpression(operator, operands) ==
    typed(operator, operands, set_expr_type(operator, operands))

\* the constructor ends with IndexError: is_single_member reads the
\* dimension of a vector or matrix type that has none, which is the type
\* inferred for the transpose of a number
AstExpression_raises(operator, operands) ==
    /\ set_expr_type(operator, operands).type # AstExprType_NUMBER
    /\ Len(set_expr_type(operator, operands).dimension) < 2

-----------------------------------------------------------------------------
(* parsing/expryacc.py.  A program text is given by its derivation: the    *)
(* declarations in text order, each expression as the tree of the grammar  *)
(* rules that match it.  The parser reduces a rule as soon as its last     *)
(* token has been read, so the rule functions run in text order, inner     *)
(* rules first.                                                            *)

ID(name) == Node("ID", name, 0, <<>>)
INTEGER(k) == Node("INTEGER", "", k, <<>>)
binary(l, op, r) == Node("binary", op, 0, <<l, r>>)
math_func_call(f, e) == Node("math_func_call", f, 0, <<e>>)
vector_index(name, e) == Node("vector_index", name, 0, <<e>>)
for_statement(name, lo, hi) == Node("for_statement", name, 0, <<lo, hi>>)
loop_expression(fors, f, e) == Node("loop_expression", f, 0, fors \o <<e>>)

\* the module state a rule function reads and writes, the value p[0] it
\* leaves, and the name of the KeyError it raised ("" if none)
ParserState(env, flv) ==
    [environment |-> env, for_loop_vars |-> flv, p |-> <<>>, raised |-> ""]

bind(env, name, value) ==
    [x \in DOMAIN env \cup {name} |-> IF x = name THEN value ELSE env[x]]

number_type == AstExprType(AstExprType_NUMBER, <<>>)

\* p_atom
p_atom(t, ps) ==
    IF t.op = "INTEGER"
    THEN [ps EXCEPT !.p = AstExpression("SYMBOL",
                <<AstSymbol(ToString(t.n), number_type,
                            AstSymbolFlag_NORMAL)>>)]
    ELSE IF t.name \in DOMAIN ps.environment
    THEN [ps EXCEPT !.p = AstExpression("SYMBOL",
                <<AstSymbol(t.name, ps.environment[t.name],
                            AstSymbolFlag_NORMAL)>>)]
    ELSE [ps EXCEPT !.raised = t.name]

\* p_vector_index, first alternative: ID [ expression ]
p_vector_index(name, ps) ==
    IF ps.raised # "" THEN ps
    ELSE IF name \in DOMAIN ps.environment
    THEN [ps EXCEPT !.p = AstExpression("INDEXING",
                <<AstExpression("SYMBOL",
                        <<AstSymbol(name, ps.environment[name],
                                    AstSymbolFlag_NORMAL)>>),
                  ps.p,
                  AstExpression("SYMBOL",
                        <<AstSymbol("0", number_type,
                                    AstSymbolFlag_NORMAL)>>)>>)]
    ELSE [ps EXCEPT !.raised = name]

\* p_math_func_call
p_math_func_call(f, ps) ==
    IF ps.raised # "" THEN ps
    ELSE [ps EXCEPT !.p = AstExpression(get_func_op(f), <<ps.p>>)]

\* p_expression, binary operator
p_binary_op(op, left, ps) ==
    IF ps.raised # "" THEN ps
    ELSE [ps EXCEPT !.p = AstExpression(get_binary_op(op), <<left, ps.p>>)]

\* p_for_statement, after the two expressions of its range
p_for_statement(name, lo, ps) ==
    IF ps.raised # "" THEN ps
    ELSE [ps EXCEPT
            !.p = AstExpression("RANGE",
                    <<AstExpression("SYMBOL",
                        <<AstSymbol(name, number_type,
                                    AstSymbolFlag_USED_IN_LOOP)>>),
                      lo, ps.p>>),
            !.for_loop_vars = Append(@, AstSymbol(name, number_type,
                                            AstSymbolFlag_USED_IN_LOOP)),
            !.environment = bind(@, name, number_type)]

\* p_loop_expression, after its for statements and its body
p_loop_expression(f, ranges, ps) ==
    IF ps.raised # "" THEN ps
    ELSE [ps EXCEPT !.p = AstExpression(
                IF f = "product" THEN "LOOP_PRODUCT" ELSE "LOOP_SUM",
                <<ps.p>> \o ranges)]

RECURSIVE p_expression(_, _)
RECURSIVE p_for_statements(_, _, _)

p_binary_right(op, right, ps) ==
    IF ps.raised # "" THEN ps
    ELSE p_binary_op(op, ps.p, p_expression(right, ps))

p_range_upper(name, hi, ps) ==
    IF ps.raised # "" THEN ps
    ELSE p_for_statement(name, ps.p, p_expression(hi, ps))

p_loop_body(f, body, ps) ==
    IF ps.raised # "" THEN ps
    ELSE p_loop_expression(f, ps.p, p_expression(body, ps))

\* the for statements of a loop, one after the other; p collects their ranges
p_for_next(fors, ranges, ps) ==
    IF ps.raised # "" THEN ps
    ELSE p_for_statements(fors, Append(ranges, ps.p), ps)

p_for_statements(fors, ranges, ps) ==
    IF Len(fors) = 0 THEN [ps EXCEPT !.p = ranges]
    ELSE p_for_next(Tail(fors), ranges,
                    p_range_upper(fors[1].name, fors[1].args[2],
                                  p_expression(fors[1].args[1], ps)))

p_expression(t, ps) ==
    IF t.op \in {"ID", "INTEGER"} THEN p_atom(t, ps)
    ELSE IF t.op = "vector_index"
        THEN p_vector_index(t.name, p_expression(t.args[1], ps))
    ELSE IF t.op = "math_func_call"
        THEN p_math_func_call(t.name, p_expression(t.args[1], ps))
    ELSE IF t.op = "binary"
        THEN p_binary_right(t.name, t.args[2], p_expression(t.args[1], ps))
    ELSE p_loop_body(t.name, t.args[Len(t.args)],
                     p_for_statements(SubSeq(t.args, 1, Len(t.args) - 1),
                                      <<>>, ps))

\* the symbol of a variable declaration [kind, name, dim, mod]
basic_var_declaration(d) ==
    AstSymbol(d.name,
              IF d.kind = "number" THEN number_type
              ELSE IF d.kind = "vector"
                  THEN AstExprType(AstExprType_VECTOR, <<d.dim[1], Num(1)>>)
              ELSE AstExprType(AstExprType_MATRIX, <<d.dim[1], d.dim[2]>>),
              IF d.mod = "nodiff" THEN AstSymbolFlag_NO_DIFF
              ELSE IF d.mod = "equivalent" THEN AstSymbolFlag_EQUIVALENT
              ELSE AstSymbolFlag_NORMAL)

-----------------------------------------------------------------------------
(* sympy.sympify of AstExpression.to_sympy_str(): the text names the        *)
(* operator and its operands, sympify looks every name up in its locals    *)
(* (a name it does not find is a new Symbol without assumptions) and       *)
(* builds the expression bottom-up.                                        *)

\* the largest integer literal the program texts of the model contain
MaxLiteral == 3

is_literal(name) == \E k \in 0..MaxLiteral : ToString(k) = name
int_of(name) == CHOOSE k \in 0..MaxLiteral : ToString(k) = name

\* AstOperator.get_sympy_str, for the functions
get_sympy_str(ast_op) ==
    CASE ast_op = "ABS" -> "Abs"
      [] ast_op = "SIN" -> "sin"
      [] ast_op = "COS" -> "cos"
      [] ast_op = "LN"  -> "log"

Sympified(e, dc) == [e |-> e, raised |-> FALSE, dc |-> dc]
CannotSympify(dc) == [e |-> Num(0), raised |-> TRUE, dc |-> dc]

\* "(...)[0,0]": the suffix of an operand typed as a matrix of one element
size_one(size_one_mat, r) ==
    IF r.raised \/ ~size_one_mat THEN r
    ELSE IF r.e.op = "MatrixSymbol"
        THEN Sympified(Elem(r.e.name, Num(0), Num(0)), r.dc)
    ELSE CannotSympify(r.dc)

\* "((a).T*(b))[0,0]": MatMul._entry expands the product over a literal
\* number of rows and leaves a Sum over a new Dummy k otherwise
dot_entry(a, b, dc) ==
    IF a.op # "MatrixSymbol" \/ b.op # "MatrixSymbol" THEN CannotSympify(dc)
    ELSE IF IsNum(a.args[1])
        THEN Sympified(MkAdd([k \in 1..a.args[1].n |->
                                MkMul(<<Elem(a.name, Num(k - 1), Num(0)),
                                        Elem(b.name, Num(k - 1), Num(0))>>)]),
                       dc)
    ELSE Sympified(
            Fn("Sum", <<MkMul(<<Elem(a.name, Dummy("k", dc), Num(0)),
                                Elem(b.name, Dummy("k", dc), Num(0))>>),
                        Fn("Tuple", <<Dummy("k", dc), Num(0),
                                      MkAdd(<<a.args[1], Num(-1)>>)>>)>>),
            dc + 1)

\* the expression an operator builds from its sympified operands
sympy_eval(a, r) ==
    IF r.raised THEN CannotSympify(r.dc)
    ELSE IF a.operator = "ADD" THEN Sympified(MkAdd(r.es), r.dc)
    ELSE IF a.operator = "MUL"
        THEN Sympified(IF r.es[1] = r.es[2] /\ ~IsNum(r.es[1])
                       THEN MkPow(r.es[1], Num(2)) ELSE MkMul(r.es), r.dc)
    ELSE IF a.operator = "DOT" THEN dot_entry(r.es[1], r.es[2], r.dc)
    ELSE IF a.operator = "INDEXING"
        THEN IF r.es[1].op = "MatrixSymbol"
             THEN Sympified(Elem(r.es[1].name, r.es[2], r.es[3]), r.dc)
             ELSE CannotSympify(r.dc)
    ELSE IF a.operator = "RANGE" THEN Sympified(Fn("Tuple", r.es), r.dc)
    ELSE IF a.operator = "LOOP_SUM" THEN Sympified(Fn("Sum", r.es), r.dc)
    ELSE IF a.operator = "LOOP_PRODUCT"
        THEN Sympified(Fn("Product", r.es), r.dc)
    ELSE Sympified(Fn(get_sympy_str(a.operator), r.es), r.dc)

RECURSIVE sympify(_, _, _)
RECURSIVE sympify_all(_, _, _, _)

sympify_rest(operands, acc, locals, r) ==
    IF r.raised THEN [es |-> acc, raised |-> TRUE, dc |-> r.dc]
    ELSE sympify_all(operands, Append(acc, r.e), locals, r.dc)

sympify_all(operands, acc, locals, dc) ==
    IF Len(operands) = 0 THEN [es |-> acc, raised |-> FALSE, dc |-> dc]
    ELSE sympify_rest(Tail(operands), acc, locals,
                      sympify(operands[1], locals, dc))

\* [e |-> the expression, raised |-> sympify raised, dc |-> the dummies made]
sympify(a, locals, dc) ==
    size_one(a.size_one_mat,
        IF a.operator # "SYMBOL"
            THEN sympy_eval(a, sympify_all(a.operands, <<>>, locals, dc))
        ELSE IF is_literal(a.operands[1].name)
            THEN Sympified(Num(int_of(a.operands[1].name)), dc)
        ELSE IF a.operands[1].name \in DOMAIN locals
            THEN Sympified(locals[a.operands[1].name], dc)
        ELSE Sympified(PlainSym(a.operands[1].name), dc))

-----------------------------------------------------------------------------
(* common/sympyutils.py, parsing/exprparser.py *)

is_const_expr(sympy_expr) == FreeSymbols(sympy_expr) = {}

get_reserved_var_names == <<"___tmp_loop_counter_1", "___tmp_loop_counter_2">>

\* parse_expr_specification, the loop over const_list: the locals, or raised
RECURSIVE convert_constants(_, _)
convert_constants(consts, locals) ==
    IF Len(consts) = 0 THEN [locals |-> locals, raised |-> ""]
    ELSE IF ~is_const_expr(sympify(consts[1].value, <<>>, 0).e)
        THEN [locals |-> locals,
              raised |-> "Right hand-side is not a constant in constant declaration"]
    ELSE convert_constants(Tail(consts),
            bind(locals, consts[1].name, sympify(consts[1].value, <<>>, 0).e))

\* a dimension parameter: an int, or a str looked up in sympy_locals
dimension_value(d, locals) == IF d.op = "str" THEN locals[d.name] ELSE d
dimension_known(d, locals) == d.op = "str" => d.name \in DOMAIN locals

symbol_known(symbol, locals) ==
    IF symbol.type_info.type = AstExprType_NUMBER THEN TRUE
    ELSE IF symbol.type_info.type = AstExprType_VECTOR
        THEN dimension_known(symbol.type_info.dimension[1], locals)
    ELSE /\ dimension_known(symbol.type_info.dimension[1], locals)
         /\ dimension_known(symbol.type_info.dimension[2], locals)

var_obj_of(symbol, locals) ==
    IF symbol.type_info.type = AstExprType_NUMBER
        THEN Variable(symbol.name, NUMBER, <<>>)
    ELSE IF symbol.type_info.type = AstExprType_VECTOR
        THEN Variable(symbol.name, VECTOR,
                <<dimension_value(symbol.type_info.dimension[1], locals)>>)
    ELSE Variable(symbol.name, MATRIX,
                <<dimension_value(symbol.type_info.dimension[1], locals),
                  dimension_value(symbol.type_info.dimension[2], locals)>>)

sympy_obj_of(symbol, locals) ==
    IF symbol.type_info.type = AstExprType_NUMBER
        THEN IF symbol.flag # AstSymbolFlag_USED_IN_LOOP
             THEN Sym(symbol.name) ELSE IntSym(symbol.name)
    ELSE IF symbol.type_info.type = AstExprType_VECTOR
        THEN MatrixSymbol(symbol.name,
                dimension_value(symbol.type_info.dimension[1], locals), Num(1))
    ELSE MatrixSymbol(symbol.name,
                dimension_value(symbol.type_info.dimension[1], locals),
                dimension_value(symbol.type_info.dimension[2], locals))

\* a faulty loop over symbol_list that takes every parameter as a
\* differentiation variable
RECURSIVE convert_symbols_all_diff(_, _)
convert_symbols_all_diff(symbols, acc) ==
    IF Len(symbols) = 0 THEN acc
    ELSE IF ~symbol_known(symbols[1], acc.locals)
        THEN [acc EXCEPT !.raised = "KeyError"]
    ELSE convert_symbols_all_diff(Tail(symbols),
            [var_list |->
                IF symbols[1].flag # AstSymbolFlag_USED_IN_LOOP
                THEN Append(acc.var_list, var_obj_of(symbols[1], acc.locals))
                ELSE acc.var_list,
             diff_var_list |->
                IF symbols[1].flag # AstSymbolFlag_USED_IN_LOOP
                THEN Append(acc.diff_var_list,
                            var_obj_of(symbols[1], acc.locals))
                ELSE acc.diff_var_list,
             locals |-> bind(acc.locals, symbols[1].name,
                             sympy_obj_of(symbols[1], acc.locals)),
             raised |-> ""])

\* parse_expr_specification, the loop over symbol_list
RECURSIVE convert_symbols(_, _)
convert_symbols(symbols, acc) ==
    IF Len(symbols) = 0 THEN acc
    ELSE IF ~symbol_known(symbols[1], acc.locals)
        THEN [acc EXCEPT !.raised =
                "KeyError: " \o symbols[1].type_info.dimension[
                    IF dimension_known(symbols[1].type_info.dimension[1],
                                       acc.locals) THEN 2 ELSE 1].name]
    ELSE convert_symbols(Tail(symbols),
            [var_list |->
                IF symbols[1].flag # AstSymbolFlag_USED_IN_LOOP
                THEN Append(acc.var_list, var_obj_of(symbols[1], acc.locals))
                ELSE acc.var_list,
             diff_var_list |->
                IF symbols[1].flag = AstSymbolFlag_NORMAL
                THEN Append(acc.diff_var_list,
                            var_obj_of(symbols[1], acc.locals))
                ELSE acc.diff_var_list,
             locals |-> bind(acc.locals, symbols[1].name,
                             sympy_obj_of(symbols[1], acc.locals)),
             raised |-> ""])

\* the locals with the reserved loop counters
RECURSIVE with_reserved(_, _)
with_reserved(locals, names) ==
    IF Len(names) = 0 THEN locals
    ELSE with_reserved(bind(locals, names[1], IntSym(names[1])), Tail(names))

\* parse_expr_specification, the loop over ast_exprs, up to main
RECURSIVE convert_exprs(_, _, _)

convert_next(exprs, locals, r) ==
    IF r.raised THEN [locals |-> locals, dc |-> r.dc, raised |-> "SympifyError"]
    ELSE IF exprs[1].name = "main"
        THEN [locals |-> bind(locals, "main", r.e), dc |-> r.dc, raised |-> ""]
    ELSE convert_exprs(Tail(exprs), bind(locals, exprs[1].name, r.e), r.dc)

convert_exprs(exprs, locals, dc) ==
    IF Len(exprs) = 0
    THEN [locals |-> locals, dc |-> dc,
          raised |-> IF "main" \in DOMAIN locals THEN "" ELSE "KeyError: main"]
    ELSE convert_next(exprs, locals, sympify(exprs[1].value, locals, dc))

\* the Dummy atoms of an expression
RECURSIVE dummy_atoms(_)
dummy_atoms(e) ==
    (IF e.op = "Dummy" THEN {e} ELSE {})
    \cup UNION {dummy_atoms(e.args[i]) : i \in 1..Len(e.args)}

\* the expression with the name of every Dummy atom extended by its suffix
RECURSIVE rename_dummies(_, _)
rename_dummies(e, suffix) ==
    IF e.op = "Dummy" THEN [e EXCEPT !.name = @ \o ToString(suffix[e])]
    ELSE [e EXCEPT !.args = [i \in 1..Len(e.args) |->
                                rename_dummies(e.args[i], suffix)]]

\* distinguish_dummy_vars: the suffixes follow the iteration order of the
\* set of atoms, which is any order
distinguish_dummy_vars(sympy_expr) ==
    {rename_dummies(sympy_expr, suffix) :
        suffix \in {f \in [dummy_atoms(sympy_expr) ->
                                0..(Cardinality(dummy_atoms(sympy_expr)) - 1)] :
                        \A a, b \in dummy_atoms(sympy_expr) :
                            a # b => f[a] # f[b]}}

-----------------------------------------------------------------------------
(* The program texts: const declarations, variable declarations and named  *)
(* expressions, in text order.                                             *)

const_decl(name, value) == [name |-> name, value |-> value]
var_decl(kind, name, dim, mod) == [kind |-> kind, name |-> name, dim |-> dim, mod |-> mod]
expr_decl(name, value) == [name |-> name, value |-> value]
Program(consts, var_decls, exprs) == [consts |-> consts, vars |-> var_decls, exprs |-> exprs]

number(name) == var_decl("number", name, <<>>, "")
times(l, r) == binary(l, "*", r)
plus(l, r) == binary(l, "+", r)

\* number x; number y
XY == <<number("x"), number("y")>>
\* number x : equivalent; vector v(2)
XV == <<var_decl("number", "x", <<>>, "equivalent"),
        var_decl("vector", "v", <<Num(MaxDim)>>, "")>>
\* number n : nodiff; number x; vector v(n) : nodiff; vector w(n) : nodiff
NXVW == <<var_decl("number", "n", <<>>, "nodiff"), number("x"),
          var_decl("vector", "v", <<PyStr("n")>>, "nodiff"),
          var_decl("vector", "w", <<PyStr("n")>>, "nodiff")>>

Programs ==
    { \* expr main = x * y
      Program(<<>>, XY, <<expr_decl("main", times(ID("x"), ID("y")))>>),
      \* number x; number y : nodiff; expr t = x * x; expr main = t + y
      Program(<<>>, <<number("x"), var_decl("number", "y", <<>>, "nodiff")>>,
              <<expr_decl("t", times(ID("x"), ID("x"))),
                expr_decl("main", plus(ID("t"), ID("y")))>>),
      \* expr main = x + z
      Program(<<>>, XY, <<expr_decl("main", plus(ID("x"), ID("z")))>>),
      \* expr main = t + x; expr t = x * x
      Program(<<>>, XY,
              <<expr_decl("main", plus(ID("t"), ID("x"))),
                expr_decl("t", times(ID("x"), ID("x")))>>),
      \* expr main = x * x; expr later = y * z
      Program(<<>>, XY,
              <<expr_decl("main", times(ID("x"), ID("x"))),
                expr_decl("later", times(ID("y"), ID("z")))>>),
      \* expr main = x * x; expr later = x * y
      Program(<<>>, XY,
              <<expr_decl("main", times(ID("x"), ID("x"))),
                expr_decl("later", times(ID("x"), ID("y")))>>),
      \* expr main = x * x; expr later = for x in [1, 2] sum(x)
      Program(<<>>, XY,
              <<expr_decl("main", times(ID("x"), ID("x"))),
                expr_decl("later",
                    loop_expression(
                        <<for_statement("x", INTEGER(1), INTEGER(2))>>,
                        "sum", ID("x")))>>),
      \* expr main = for i in [0, 1] sum(v[i] * x)
      Program(<<>>, XV,
              <<expr_decl("main",
                    loop_expression(
                        <<for_statement("i", INTEGER(0), INTEGER(1))>>,
                        "sum", times(vector_index("v", ID("i")), ID("x"))))>>),
      \* expr main = v[i] * x
      Program(<<>>, XV,
              <<expr_decl("main", times(vector_index("v", ID("i")), ID("x")))>>),
      \* expr main = w[x[z]]
      Program(<<>>, XV,
              <<expr_decl("main",
                    vector_index("w", vector_index("x", ID("z"))))>>),
      \* expr main = for v in [0, 1] product(x)
      Program(<<>>, XV,
              <<expr_decl("main",
                    loop_expression(
                        <<for_statement("v", INTEGER(0), INTEGER(1))>>,
                        "product", ID("x")))>>),
      \* expr main = (v . w) * x + (w . v)
      Program(<<>>, NXVW,
              <<expr_decl("main",
                    plus(times(binary(ID("v"), ".", ID("w")), ID("x")),
                         binary(ID("w"), ".", ID("v"))))>>),
      \* number n; vector v(n); expr main = v[0] * n
      Program(<<>>, <<number("n"), var_decl("vector", "v", <<PyStr("n")>>, "")>>,
              <<expr_decl("main", times(vector_index("v", INTEGER(0)), ID("n")))>>),
      \* expr t = x
      Program(<<>>, XY, <<expr_decl("t", ID("x"))>>),
      \* expr main = sin(x) + abs(y)
      Program(<<>>, XY,
              <<expr_decl("main", plus(math_func_call("sin", ID("x")),
                                       math_func_call("abs", ID("y"))))>>),
      \* const a = 2; expr main = a * x
      Program(<<const_decl("a", INTEGER(2))>>, XY,
              <<expr_decl("main", times(ID("a"), ID("x")))>>),
      \* const a = 2; const b = a + 1; expr main = b * x
      Program(<<const_decl("a", INTEGER(2)),
                const_decl("b", plus(ID("a"), INTEGER(1)))>>, XY,
              <<expr_decl("main", times(ID("b"), ID("x")))>>),
      \* const c = x; expr main = x
      Program(<<const_decl("c", ID("x"))>>, XY, <<expr_decl("main", ID("x"))>>),
      \* number x; number x; expr main = x * x
      Program(<<>>, <<number("x"), number("x")>>,
              <<expr_decl("main", times(ID("x"), ID("x")))>>) }

-----------------------------------------------------------------------------
(* One parse: the rule functions of the declarations, in text order.  The  *)
(* parse is the record of what the module globals and the lists under      *)
(* construction hold.                                                      *)

Parse(env, flv, consts, symbols, exprs, err) == [environment |-> env, for_loop_vars |-> flv, const_list |-> consts, symbol_list |-> symbols, ast_exprs |-> exprs, raised |-> err]

\* a rule function raised: what it wrote to the module globals stays
aborted(y, ps) ==
    [y EXCEPT !.environment = ps.environment,
              !.for_loop_vars = ps.for_loop_vars,
              !.raised = "KeyError: " \o ps.raised]

\* p_const_declaration, after the expression
const_declaration(name, y, ps) ==
    IF ps.raised # "" THEN aborted(y, ps)
    ELSE [y EXCEPT !.environment = bind(ps.environment, name, ps.p.expr_type),
                   !.for_loop_vars = ps.for_loop_vars,
                   !.const_list = Append(@, AstConstant(name, ps.p))]

\* p_basic_var_declaration, p_var_declaration
var_declaration(d, y) ==
    [y EXCEPT !.environment = bind(@, d.name,
                                   basic_var_declaration(d).type_info),
              !.symbol_list = Append(@, basic_var_declaration(d))]

\* p_expr_declaration, after the expression
expr_declaration(name, y, ps) ==
    IF ps.raised # "" THEN aborted(y, ps)
    ELSE [y EXCEPT !.environment = bind(ps.environment, name, ps.p.expr_type),
                   !.for_loop_vars = ps.for_loop_vars,
                   !.ast_exprs = Append(@, [name |-> name, value |-> ps.p])]

\* p_file_description: p[2] += for_loop_vars
file_description(y) ==
    [y EXCEPT !.symbol_list = @ \o y.for_loop_vars]

-----------------------------------------------------------------------------
(* codegen.py: main, run MaxRuns times in one process.  The modules are    *)
(* imported once, so what they hold at module level outlives a run.        *)

MainInit ==
    /\ entry = "ExprClass"
    /\ var_list = <<>>
    /\ diff_var_list = <<>>
    /\ expr = Num(0)
    /\ class_name = "Foo"
    /\ package = ""
    /\ nohessian = FALSE
    /\ modifier_list = <<"public", "static">>
    /\ pc = "idle"
    /\ first_var_ind = 0
    /\ second_var_ind = 0
    /\ num_tab = 0
    /\ out = <<>>
    /\ file_handler = "none"
    /\ fresh_tools
    /\ fresh_parser
    /\ fresh_lexer

\* what a run ended with
this_run ==
    [program_txt |-> program_txt, nohessian |-> nohessian, pc |-> pc,
     error |-> error, symbol_list |-> symbol_list, var_list |-> var_list,
     diff_var_list |-> diff_var_list, expr |-> expr, out |-> out]

\* main: the arguments and the text of the expression file are read
main ==
    /\ \/ pc = "idle"
       \/ /\ pc \in {"done", "raised"}
          /\ file_handler # "open"
          /\ Len(runs) < MaxRuns - 1
    /\ runs' = IF pc = "idle" THEN runs ELSE Append(runs, this_run)
    /\ program_txt' \in Programs
    /\ nohessian' \in BOOLEAN
    /\ pc' = "parse"
    /\ const_list' = <<>>
    /\ symbol_list' = <<>>
    /\ ast_exprs' = <<>>
    /\ sympy_locals' = <<>>
    /\ error' = ""
    /\ var_list' = <<>>
    /\ diff_var_list' = <<>>
    /\ expr' = Num(0)
    /\ out' = <<>>
    /\ num_tab' = 0
    /\ first_var_ind' = 0
    /\ second_var_ind' = 0
    /\ file_handler' = "none"
    /\ UNCHANGED <<entry, class_name, package, modifier_list, environment,
                   for_loop_vars, dummy_count, lexer_state, config_state,
                   ast_state>>

\* the parse so far
yacc_state ==
    Parse(environment, for_loop_vars, const_list, symbol_list, ast_exprs, "")

\* a rule function has run
reduced(y, next_pc) ==
    /\ environment' = y.environment
    /\ for_loop_vars' = y.for_loop_vars
    /\ const_list' = y.const_list
    /\ symbol_list' = y.symbol_list
    /\ ast_exprs' = y.ast_exprs
    /\ error' = y.raised
    /\ pc' = IF y.raised # "" THEN "raised" ELSE next_pc
    /\ UNCHANGED <<inputs, first_var_ind, second_var_ind, num_tab, out,
                   program_txt, sympy_locals, dummy_count, runs, lexer_state,
                   config_state, ast_state, file_handler>>

p_const_declaration ==
    /\ pc = "parse"
    /\ Len(const_list) < Len(program_txt.consts)
    /\ reduced(const_declaration(
                    program_txt.consts[Len(const_list) + 1].name, yacc_state,
                    p_expression(program_txt.consts[Len(const_list) + 1].value,
                                 ParserState(environment, for_loop_vars))),
               "parse")

p_var_declaration ==
    /\ pc = "parse"
    /\ Len(const_list) = Len(program_txt.consts)
    /\ Len(symbol_list) < Len(program_txt.vars)
    /\ reduced(var_declaration(program_txt.vars[Len(symbol_list) + 1],
                               yacc_state),
               "parse")

p_expr_declaration ==
    /\ pc = "parse"
    /\ Len(const_list) = Len(program_txt.consts)
    /\ Len(symbol_list) = Len(program_txt.vars)
    /\ Len(ast_exprs) < Len(program_txt.exprs)
    /\ reduced(expr_declaration(
                    program_txt.exprs[Len(ast_exprs) + 1].name, yacc_state,
                    p_expression(program_txt.exprs[Len(ast_exprs) + 1].value,
                                 ParserState(environment, for_loop_vars))),
               "parse")

p_file_description ==
    /\ pc = "parse"
    /\ Len(const_list) = Len(program_txt.consts)
    /\ Len(symbol_list) = Len(program_txt.vars)
    /\ Len(ast_exprs) = Len(program_txt.exprs)
    /\ reduced(file_description(yacc_state), "constants")

\* parse_expr_specification has a step of its own done
converted(r, next_pc) ==
    /\ var_list' = r.var_list
    /\ diff_var_list' = r.diff_var_list
    /\ sympy_locals' = r.locals
    /\ error' = r.raised
    /\ pc' = IF r.raised # "" THEN "raised" ELSE next_pc
    /\ UNCHANGED <<entry, class_name, package, nohessian, modifier_list,
                   first_var_ind, second_var_ind, num_tab, out, program_txt,
                   environment, for_loop_vars, const_list, symbol_list,
                   ast_exprs, runs, lexer_state, config_state, ast_state,
                   file_handler>>

\* parse_expr_specification: the constants
parse_constants ==
    /\ pc = "constants"
    /\ converted([var_list |-> <<>>, diff_var_list |-> <<>>,
                  locals |-> convert_constants(const_list, <<>>).locals,
                  raised |-> convert_constants(const_list, <<>>).raised],
                 "symbols")
    /\ UNCHANGED <<expr, dummy_count>>

\* parse_expr_specification: the symbols and the reserved names
with_reserved_names(r) ==
    IF r.raised # "" THEN r
    ELSE [r EXCEPT !.locals = with_reserved(@, get_reserved_var_names)]

parse_symbols ==
    /\ pc = "symbols"
    /\ converted(with_reserved_names(
                    convert_symbols(symbol_list,
                        [var_list |-> <<>>, diff_var_list |-> <<>>,
                         locals |-> sympy_locals, raised |-> ""])),
                 "exprs")
    /\ UNCHANGED <<expr, dummy_count>>

\* parse_expr_specification: the expressions up to main, and the return
returned(r) ==
    /\ converted([var_list |-> var_list, diff_var_list |-> diff_var_list,
                  locals |-> r.locals, raised |-> r.raised],
                 "dummies")
    /\ dummy_count' = r.dc
    /\ expr' = IF r.raised # "" THEN expr ELSE r.locals["main"]

parse_exprs ==
    /\ pc = "exprs"
    /\ returned(convert_exprs(ast_exprs, sympy_locals, dummy_count))

\* main: sympyutils.distinguish_dummy_vars(sympy_expr)
main_distinguish_dummy_vars ==
    /\ pc = "dummies"
    /\ expr' \in distinguish_dummy_vars(expr)
    /\ pc' = "gen_code"
    /\ UNCHANGED <<entry, var_list, diff_var_list, class_name, package,
                   nohessian, modifier_list, first_var_ind, second_var_ind,
                   num_tab, out, parser_state, lexer_state, config_state,
                   ast_state, file_handler>>

\* codegen.gen_code enters the scope of a new FileCodeWriter: __enter__
\* opens the file for writing, which empties it
FileCodeWriter_enter ==
    /\ pc = "gen_code"
    /\ file_handler = "none"
    /\ file_handler' = "open"
    /\ out' = <<>>
    /\ pc' = "header"
    /\ UNCHANGED <<inputs, first_var_ind, second_var_ind, num_tab,
                   parser_state, lexer_state, config_state, ast_state>>

\* __exit__ that runs only when the scope is left without an exception
FileCodeWriter_exit_on_return ==
    /\ pc = "done"
    /\ file_handler = "open"
    /\ file_handler' = "closed"
    /\ UNCHANGED <<inputs, pc, first_var_ind, second_var_ind, num_tab, out,
                   parser_state, lexer_state, config_state, ast_state>>

\* the scope is left, by the return of gen_code or by an exception raised
\* in it: __exit__ hands both to the file's __exit__, which closes it
FileCodeWriter_exit ==
    /\ pc \in {"done", "raised"}
    /\ file_handler = "open"
    /\ file_handler' = "closed"
    /\ UNCHANGED <<inputs, pc, first_var_ind, second_var_ind, num_tab, out,
                   parser_state, lexer_state, config_state, ast_state>>

MainNext ==
    \/ main
    \/ p_const_declaration
    \/ p_var_declaration
    \/ p_expr_declaration
    \/ p_file_description
    \/ parse_constants
    \/ parse_symbols
    \/ parse_exprs
    \/ main_distinguish_dummy_vars
    \/ FileCodeWriter_enter
    \/ FileCodeWriter_exit
    \/ gen_code_header
    \/ gen_code_eval
    \/ get_derivative_code_generator
    \/ gen_code_all_first_order
    \/ gen_jacobian
    \/ gen_code_all_second_order
    \/ gen_hessian
    \/ gen_code_footer

MainSpec == MainInit /\ [][MainNext]_vars

\* the with statement calls __exit__ as soon as its body has ended
MainFairSpec == MainSpec /\ WF_vars(FileCodeWriter_exit)

-----------------------------------------------------------------------------
(* parsing/exprlex.py: the lexer.  ply tries the rules at lexpos in the     *)
(* order of its master pattern: the function rules in the order they are    *)
(* defined, then the string rules by decreasing pattern length, and takes   *)
(* the first rule that matches.  lexdata is the sequence of the characters  *)
(* of the input and lexpos counts the characters consumed.                  *)

\* longest text handed to the lexer
MaxInput == 5

Digits == {"0", "1", "2", "3", "4", "5", "6", "7", "8", "9"}
Letters ==
    {"a", "b", "c", "d", "e", "f", "g", "h", "i", "j", "k", "l", "m",
     "n", "o", "p", "q", "r", "s", "t", "u", "v", "w", "x", "y", "z",
     "A", "B", "C", "D", "E", "F", "G", "H", "I", "J", "K", "L", "M",
     "N", "O", "P", "Q", "R", "S", "T", "U", "V", "W", "X", "Y", "Z"}
\* what \s matches
Whitespace == {" ", "\t", "\n", "\r", "\f"}

reserved ==
    [abs |-> "ABS", sqrt |-> "SQRT", sin |-> "SIN", cos |-> "COS",
     tan |-> "TAN", cot |-> "COT", ln |-> "LN", norm |-> "NORM",
     transpose |-> "TRANSPOSE", number |-> "NUMBER", vector |-> "VECTOR",
     matrix |-> "MATRIX", const |-> "CONST", expr |-> "EXPR", sum |-> "SUM",
     product |-> "PRODUCT", for |-> "FOR", in |-> "IN",
     equivalent |-> "EQUIVALENT", nodiff |-> "NODIFF", main |-> "MAIN"]

\* the string rules t_PLUS .. t_COLON: each matches one character
string_rules ==
    [c \in {"+", "-", "*", "/", "^", ".", "#", "=", "(", ")", "[", "]", ",",
            "'", ":"} |->
        CASE c = "+" -> "PLUS"     [] c = "-" -> "MINUS"
          [] c = "*" -> "MUL"      [] c = "/" -> "DIV"
          [] c = "^" -> "EXP"      [] c = "." -> "DOT"
          [] c = "#" -> "CROSS"    [] c = "=" -> "EQUAL"
          [] c = "(" -> "LPAREN"   [] c = ")" -> "RPAREN"
          [] c = "[" -> "LSQRBRAC" [] c = "]" -> "RSQRBRAC"
          [] c = "," -> "COMMA"    [] c = "'" -> "APOSTROPHE"
          [] c = ":" -> "COLON"]

\* a LexToken
LexToken(type, value, line, pos) ==
    [type |-> type, value |-> value, lineno |-> line, lexpos |-> pos]

\* data[from + 1 .. to] as text
lexeme(data, from, to) == Join(SubSeq(data, from + 1, to), "")

\* where the run of characters of the set that starts at pos ends
RECURSIVE run_end(_, _, _)
run_end(data, pos, chars) ==
    IF pos < Len(data) /\ data[pos + 1] \in chars
    THEN run_end(data, pos + 1, chars)
    ELSE pos

char_at(data, pos) == IF pos < Len(data) THEN data[pos + 1] ELSE ""

\* int(): the number the digits data[from + 1 .. to] write
RECURSIVE int_value(_, _, _)
int_value(data, from, to) ==
    IF to <= from THEN 0
    ELSE 10 * int_value(data, from, to - 1)
            + (CHOOSE k \in 0..9 : ToString(k) = data[to])

\* a float is num * 10^exp with num not a multiple of ten
RECURSIVE float_value(_, _)
float_value(num, exp) ==
    IF num = 0 THEN [num |-> 0, exp |-> 0]
    ELSE IF num % 10 = 0 THEN float_value(num \div 10, exp + 1)
    ELSE [num |-> num, exp |-> exp]

\* t_DOUBLE's pattern \d+((\.\d*) | ((\.\d*)?(e[\+-]\d+))): where the match
\* that starts at pos ends, None if there is none.  The first alternative
\* is taken whenever a point follows the digits.
match_DOUBLE(data, pos) ==
    IF run_end(data, pos, Digits) = pos THEN None
    ELSE IF char_at(data, run_end(data, pos, Digits)) = "."
        THEN run_end(data, run_end(data, pos, Digits) + 1, Digits)
    ELSE IF /\ char_at(data, run_end(data, pos, Digits)) = "e"
            /\ char_at(data, run_end(data, pos, Digits) + 1) \in {"+", "-"}
            /\ char_at(data, run_end(data, pos, Digits) + 2) \in Digits
        THEN run_end(data, run_end(data, pos, Digits) + 2, Digits)
    ELSE None

\* float(t.value) of the text matched by t_DOUBLE
double_value(data, pos) ==
    IF char_at(data, run_end(data, pos, Digits)) = "."
    THEN float_value(
            int_value(data, pos, run_end(data, pos, Digits))
                * 10^(match_DOUBLE(data, pos) - run_end(data, pos, Digits) - 1)
            + int_value(data, run_end(data, pos, Digits) + 1,
                        match_DOUBLE(data, pos)),
            0 - (match_DOUBLE(data, pos) - run_end(data, pos, Digits) - 1))
    ELSE float_value(
            int_value(data, pos, run_end(data, pos, Digits)),
            IF char_at(data, run_end(data, pos, Digits) + 1) = "-"
            THEN 0 - int_value(data, run_end(data, pos, Digits) + 2,
                               match_DOUBLE(data, pos))
            ELSE int_value(data, run_end(data, pos, Digits) + 2,
                           match_DOUBLE(data, pos)))

\* t_INTEGER's pattern \d+
match_INTEGER(data, pos) ==
    IF run_end(data, pos, Digits) = pos THEN None
    ELSE run_end(data, pos, Digits)

\* t_ID's pattern [A-Za-z_][A-Za-z_0-9]*
match_ID(data, pos) ==
    IF char_at(data, pos) \in Letters \cup {"_"}
    THEN run_end(data, pos, Letters \cup {"_"} \cup Digits)
    ELSE None

\* t_ignore_WHITESPACES's pattern \s+
match_WHITESPACES(data, pos) ==
    IF run_end(data, pos, Whitespace) = pos THEN None
    ELSE run_end(data, pos, Whitespace)

\* t_ignore_BLOCK_COMMENT's pattern /\*(.|\n)*?\*/: up to the first */
match_BLOCK_COMMENT(data, pos) ==
    IF /\ char_at(data, pos) = "/"
       /\ char_at(data, pos + 1) = "*"
       /\ \E k \in (pos + 2)..(Len(data) - 2) :
            data[k + 1] = "*" /\ data[k + 2] = "/"
    THEN 2 + CHOOSE k \in (pos + 2)..(Len(data) - 2) :
            /\ data[k + 1] = "*" /\ data[k + 2] = "/"
            /\ \A j \in (pos + 2)..(k - 1) :
                    ~(data[j + 1] = "*" /\ data[j + 2] = "/")
    ELSE None

\* t_ignore_LINE_COMMENT's pattern //.*: up to the end of the line
match_LINE_COMMENT(data, pos) ==
    IF char_at(data, pos) = "/" /\ char_at(data, pos + 1) = "/"
    THEN run_end(data, pos + 2,
                 {data[k] : k \in 1..Len(data)} \ {"\n"})
    ELSE None

\* the rule the master pattern takes at pos
rule_at(data, pos) ==
    CASE match_DOUBLE(data, pos) # None -> "DOUBLE"
      [] OTHER ->
    CASE match_INTEGER(data, pos) # None -> "INTEGER"
      [] OTHER ->
    CASE match_ID(data, pos) # None -> "ID"
      [] OTHER ->
    CASE match_WHITESPACES(data, pos) # None -> "ignore_WHITESPACES"
      [] OTHER ->
    CASE match_BLOCK_COMMENT(data, pos) # None -> "ignore_BLOCK_COMMENT"
      [] OTHER ->
    CASE match_LINE_COMMENT(data, pos) # None -> "ignore_LINE_COMMENT"
      [] OTHER ->
    IF char_at(data, pos) \in DOMAIN string_rules THEN "string" ELSE "error"

\* t.value.count("\n") of the text data[from + 1 .. to]
count_newlines(data, from, to) ==
    Cardinality({k \in (from + 1)..to : data[k] = "\n"})

\* the characters of the texts handed to the lexer
Alphabet == {"e", "1", ".", "+", "/", "*", " ", "\n", "$"}

\* a literal with a fraction and an exponent: 1.1e+1
Literals == {<<"1", ".", "1", "e", "+", "1">>}

Inputs == UNION {[1..n -> Alphabet] : n \in 0..MaxInput} \cup Literals

\* the variables of the code generators
codegen_state == <<entry, var_list, diff_var_list, expr, class_name, package,
                   nohessian, modifier_list, first_var_ind, second_var_ind,
                   num_tab, out, file_handler, config_state, ast_state>>

\* lexer.input(text) on the lexer as it is after import
LexInit ==
    /\ entry = "Lexer"
    /\ var_list = <<>>
    /\ diff_var_list = <<>>
    /\ expr = Num(0)
    /\ class_name = ""
    /\ package = ""
    /\ nohessian = FALSE
    /\ modifier_list = <<>>
    /\ pc = "lex"
    /\ first_var_ind = 0
    /\ second_var_ind = 0
    /\ num_tab = 0
    /\ out = <<>>
    /\ fresh_parser
    /\ fresh_tools
    /\ file_handler = "none"
    /\ lexdata \in Inputs
    /\ lexpos = 0
    /\ lineno = 1
    /\ lextokens = <<>>
    /\ printed = <<>>

\* the lexer is at a character of the input
lexing == pc = "lex" /\ lexpos < Len(lexdata)

\* token() returns tok and the lexer stands at lexpos_end
token_returned(tok, lexpos_end) ==
    /\ lextokens' = Append(lextokens, tok)
    /\ lexpos' = lexpos_end
    /\ UNCHANGED <<lexdata, lineno, printed, pc, codegen_state, parser_state>>

\* the match is discarded and token() goes on at lexpos_end
token_discarded(newlines, lexpos_end) ==
    /\ lineno' = lineno + newlines
    /\ lexpos' = lexpos_end
    /\ UNCHANGED <<lexdata, lextokens, printed, pc, codegen_state,
                   parser_state>>

t_DOUBLE ==
    /\ lexing
    /\ rule_at(lexdata, lexpos) = "DOUBLE"
    /\ token_returned(LexToken("DOUBLE", double_value(lexdata, lexpos),
                               lineno, lexpos),
                      match_DOUBLE(lexdata, lexpos))

t_INTEGER ==
    /\ lexing
    /\ rule_at(lexdata, lexpos) = "INTEGER"
    /\ token_returned(LexToken("INTEGER",
                               int_value(lexdata, lexpos,
                                         match_INTEGER(lexdata, lexpos)),
                               lineno, lexpos),
                      match_INTEGER(lexdata, lexpos))

id_token(value, line, pos) ==
    LexToken(IF value \in DOMAIN reserved THEN reserved[value] ELSE "ID",
             value, line, pos)

t_ID ==
    /\ lexing
    /\ rule_at(lexdata, lexpos) = "ID"
    /\ token_returned(id_token(lexeme(lexdata, lexpos,
                                      match_ID(lexdata, lexpos)),
                               lineno, lexpos),
                      match_ID(lexdata, lexpos))

\* a string rule t_PLUS .. t_COLON
t_string ==
    /\ lexing
    /\ rule_at(lexdata, lexpos) = "string"
    /\ token_returned(LexToken(string_rules[lexdata[lexpos + 1]],
                               lexdata[lexpos + 1], lineno, lexpos),
                      lexpos + 1)

t_ignore_LINE_COMMENT ==
    /\ lexing
    /\ rule_at(lexdata, lexpos) = "ignore_LINE_COMMENT"
    /\ token_discarded(0, match_LINE_COMMENT(lexdata, lexpos))

t_ignore_WHITESPACES ==
    /\ lexing
    /\ rule_at(lexdata, lexpos) = "ignore_WHITESPACES"
    /\ token_discarded(count_newlines(lexdata, lexpos,
                                      match_WHITESPACES(lexdata, lexpos)),
                       match_WHITESPACES(lexdata, lexpos))

t_ignore_BLOCK_COMMENT ==
    /\ lexing
    /\ rule_at(lexdata, lexpos) = "ignore_BLOCK_COMMENT"
    /\ token_discarded(count_newlines(lexdata, lexpos,
                                      match_BLOCK_COMMENT(lexdata, lexpos)),
                       match_BLOCK_COMMENT(lexdata, lexpos))

\* t_error with t.lexer.skip(2): a character after the reported one is lost
t_error_skip_two ==
    /\ lexing
    /\ rule_at(lexdata, lexpos) = "error"
    /\ printed' = Append(printed,
                         "Illegal character '" \o lexdata[lexpos + 1] \o "'")
    /\ lexpos' = lexpos + 2
    /\ pc' = pc
    /\ UNCHANGED <<lexdata, lineno, lextokens, codegen_state, parser_state>>

\* no rule matches: t_error prints the character and skips it; ply raises
\* LexError when the error rule has left lexpos where it was
t_error ==
    /\ lexing
    /\ rule_at(lexdata, lexpos) = "error"
    /\ printed' = Append(printed,
                         "Illegal character '" \o lexdata[lexpos + 1] \o "'")
    /\ lexpos' = lexpos + 1
    /\ pc' = IF lexpos' = lexpos THEN "raised" ELSE pc
    /\ UNCHANGED <<lexdata, lineno, lextokens, codegen_state, parser_state>>

\* token() returns None at the end of the input
end_of_input ==
    /\ pc = "lex"
    /\ lexpos >= Len(lexdata)
    /\ pc' = "eof"
    /\ UNCHANGED <<lexer_state, codegen_state, parser_state>>

LexNext ==
    \/ t_DOUBLE
    \/ t_INTEGER
    \/ t_ID
    \/ t_string
    \/ t_ignore_LINE_COMMENT
    \/ t_ignore_WHITESPACES
    \/ t_ignore_BLOCK_COMMENT
    \/ t_error
    \/ end_of_input

LexSpec == LexInit /\ [][LexNext]_vars

\* token() is called until it returns None: the loop of the parser that
\* reads the tokens never stops between two calls
LexFairSpec == LexSpec /\ WF_vars(LexNext)

-----------------------------------------------------------------------------
(* codegen.py: the settings of one run, from the command line and the      *)
(* configuration file. Texts that the code inspects are sequences of       *)
(* characters.                                                             *)

SUPPORTED_LANGS == {<<"j", "a", "v", "a">>}
DEFAULT_LANG == <<"j", "a", "v", "a">>

\* str.lower() and str.upper() on the letters that occur
LowerCase == [c \in {"J", "L", "F", "K"} |->
                 CASE c = "J" -> "j" [] c = "L" -> "l" [] c = "F" -> "f"
                   [] OTHER -> "k"]
UpperCase == [c \in {"j", "l", "f", "k"} |->
                 CASE c = "j" -> "J" [] c = "l" -> "L" [] c = "f" -> "F"
                   [] OTHER -> "K"]

str_lower(s) ==
    [i \in DOMAIN s |-> IF s[i] \in DOMAIN LowerCase THEN LowerCase[s[i]]
                        ELSE s[i]]

str_upper(s) ==
    [i \in DOMAIN s |-> IF s[i] \in DOMAIN UpperCase THEN UpperCase[s[i]]
                        ELSE s[i]]

\* os.path.basename: what follows the last slash
basename(path) ==
    LET slashes == {i \in DOMAIN path : path[i] = "/"}
        last == IF slashes = {} THEN 0
                ELSE CHOOSE i \in slashes : \A j \in slashes : j <= i
    IN  SubSeq(path, last + 1, Len(path))

\* os.path.splitext(name)[0]: the name up to its last dot, a dot in front
\* of the name not counting
splitext_root(name) ==
    LET dots == {i \in DOMAIN name : name[i] = "." /\ i > 1}
        last == IF dots = {} THEN Len(name) + 1
                ELSE CHOOSE i \in dots : \A j \in dots : j <= i
    IN  SubSeq(name, 1, last - 1)

\* the configuration file: absent, or JSON text that is a list, or a JSON
\* object given as its set of <<key, value>> pairs
NoFile == [kind |-> "none", items |-> {}]
JsonList == [kind |-> "list", items |-> {}]
JsonObject(items) == [kind |-> "dict", items |-> items]

ConfigFiles ==
    {NoFile, JsonList, JsonObject({}),
     JsonObject({<<<<"L", "a", "n", "g">>, <<"J", "a", "v", "a">>>>}),
     JsonObject({<<<<"l", "a", "n", "g">>, <<"c">>>>}),
     JsonObject({<<<<"c", "l", "a", "s", "s", "n", "a", "m", "e">>,
                   <<"K">>>>}),
     JsonObject({<<<<"d", "e", "s", "t">>, <<"/", "o">>>>}),
     JsonObject({<<<<"n", "o", "h", "e", "s", "s", "i", "a", "n">>, TRUE>>})}

\* what init_argument_parser's parser can return
ArgumentUniverse ==
    [config : ConfigFiles,
     cname : {<<>>, <<"C">>},
     dest : {<<>>, <<"/", "d">>},
     lang : {<<>>, <<"J", "a", "v", "a">>, <<"c">>},
     nohessian : BOOLEAN,
     exprfile : {<<"d", "/", "f", "o", "o", ".", "e">>, <<"F">>}]

KeyLang == <<"l", "a", "n", "g">>
KeyClassname == <<"c", "l", "a", "s", "s", "n", "a", "m", "e">>
KeyDest == <<"d", "e", "s", "t">>
KeyNohessian == <<"n", "o", "h", "e", "s", "s", "i", "a", "n">>
getcwd == <<"/", "c", "w", "d">>

\* the defaultdict(str) filled from the file, keys lower-cased
file_config(config) ==
    LET keys == {str_lower(item[1]) : item \in config.items}
    IN  [key \in keys |->
            LET item == CHOOSE it \in config.items : str_lower(it[1]) = key
            IN  item[2]]

\* code_gen_config[key] of a defaultdict(str)
lookup(d, key) == IF key \in DOMAIN d THEN d[key] ELSE <<>>

\* a dictionary with one more binding
with_key(d, key, value) ==
    [k \in DOMAIN d \cup {key} |-> IF k = key THEN value ELSE d[k]]

\* the value get_code_gen_config returns, or the error it raises
config_result(a) ==
    IF a.config.kind = "list" THEN [raised |-> "IOError"]
    ELSE
    LET from_file == file_config(a.config)
        given_lang == IF a.lang # <<>> THEN a.lang
                      ELSE lookup(from_file, KeyLang)
        lang == str_lower(IF given_lang = <<>> THEN DEFAULT_LANG
                          ELSE given_lang)
        given_name == IF a.cname # <<>> THEN a.cname
                      ELSE lookup(from_file, KeyClassname)
        filename == splitext_root(basename(a.exprfile))
        classname == IF given_name # <<>> THEN given_name
                     ELSE str_upper(SubSeq(filename, 1, 1))
                          \o SubSeq(filename, 2, Len(filename))
        given_dest == IF a.dest # <<>> THEN a.dest
                      ELSE lookup(from_file, KeyDest)
        dest == IF given_dest # <<>> THEN given_dest ELSE getcwd
    IN  IF lang \notin SUPPORTED_LANGS
        THEN [raised |-> "NotImplementedError"]
        ELSE [raised |-> "",
              config |->
                  with_key(with_key(with_key(with_key(from_file,
                      KeyLang, lang), KeyClassname, classname),
                      KeyDest, dest), KeyNohessian, a.nohessian)]

\* main has parsed the command line
ConfigInit ==
    /\ entry = "main"
    /\ var_list = <<>>
    /\ diff_var_list = <<>>
    /\ expr = Num(0)
    /\ class_name = ""
    /\ package = ""
    /\ nohessian = FALSE
    /\ modifier_list = <<>>
    /\ pc = "config"
    /\ first_var_ind = 0
    /\ second_var_ind = 0
    /\ num_tab = 0
    /\ out = <<>>
    /\ file_handler = "none"
    /\ fresh_parser
    /\ fresh_lexer
    /\ parsed_args \in ArgumentUniverse
    /\ code_gen_config = <<>>
    /\ ast_expr = <<>>
    /\ sympy_str = <<>>

\* get_code_gen_config(args) returns: the input file is read next
get_code_gen_config ==
    /\ pc = "config"
    /\ config_result(parsed_args).raised = ""
    /\ code_gen_config' = config_result(parsed_args).config
    /\ nohessian' = config_result(parsed_args).config[KeyNohessian]
    /\ pc' = "parse"
    /\ UNCHANGED <<entry, var_list, diff_var_list, expr, class_name, package,
                   modifier_list, first_var_ind, second_var_ind, num_tab, out,
                   file_handler, parsed_args, ast_state, parser_state,
                   lexer_state>>

\* get_code_gen_config(args) raises: main ends with the error
get_code_gen_config_raise ==
    /\ pc = "config"
    /\ config_result(parsed_args).raised # ""
    /\ error' = config_result(parsed_args).raised
    /\ pc' = "raised"
    /\ UNCHANGED <<codegen_state, lexer_state, program_txt, environment,
                   for_loop_vars, const_list, symbol_list, ast_exprs,
                   sympy_locals, dummy_count, runs>>

ConfigNext ==
    \/ get_code_gen_config
    \/ get_code_gen_config_raise

ConfigSpec == ConfigInit /\ [][ConfigNext]_vars

-----------------------------------------------------------------------------
(* parsing/astdef.py: the text of an expression, and expressions built   *)
(* one construction at a time.                                            *)

MaxAstDepth == 2

\* a text is the sequence of its pieces: brackets, commas, names, operators
\* and digits, in the order of the string
Joined(texts, sep) ==
    Flatten([k \in 1..Len(texts) |->
                IF k = 1 THEN texts[k] ELSE <<sep>> \o texts[k]])

\* str(dimension[k]) + "-1"
dimension_minus_one(d) ==
    <<IF d.op = "str" THEN d.name ELSE ToString(d.n), "-", "1">>

\* get_norm_sympy_str, given the operand's type and text
get_norm_sympy_str(expr_type, expr_str) ==
    IF expr_type.type = AstExprType_NUMBER
        THEN <<"sqrt", "(", "(">> \o expr_str \o <<")", "**", "2">>
    ELSE IF expr_type.type = AstExprType_VECTOR
        THEN <<"sqrt", "(", "Sum", "(", "(", "(">> \o expr_str
             \o <<")", "[", get_reserved_var_names[1], ",", "0", "]", ")",
                  "**", "2", ",", "(", get_reserved_var_names[1], ",", "0",
                  ",">>
             \o dimension_minus_one(expr_type.dimension[1])
             \o <<")", ")", ")">>
    ELSE <<"sqrt", "(", "Sum", "(", "Sum", "(", "(", "(">> \o expr_str
         \o <<")", "[", get_reserved_var_names[1], ",",
              get_reserved_var_names[2], "]", ")", "**", "2", ",", "(",
              get_reserved_var_names[1], ",", "0", ",">>
         \o dimension_minus_one(expr_type.dimension[1])
         \o <<")", ")", ",", "(", get_reserved_var_names[2], ",", "0", ",">>
         \o dimension_minus_one(expr_type.dimension[2])
         \o <<")", ")", ")">>

\* AstOperator.get_sympy_str, for every operator that has a text
operator_sympy_str(ast_op) ==
    CASE ast_op = "ADD" -> "+"
      [] ast_op = "SUB" -> "-"
      [] ast_op = "MUL" -> "*"
      [] ast_op = "DIV" -> "/"
      [] ast_op = "POW" -> "**"
      [] ast_op = "UMINUS" -> "-"
      [] ast_op = "ABS" -> "Abs"
      [] ast_op = "SQRT" -> "sqrt"
      [] ast_op = "SIN" -> "sin"
      [] ast_op = "COS" -> "cos"
      [] ast_op = "TAN" -> "tan"
      [] ast_op = "COT" -> "cot"
      [] ast_op = "LN" -> "log"
      [] ast_op = "TRANSPOSE" -> "Transpose"
      [] OTHER -> "None"

RECURSIVE to_sympy_str(_), to_sympy_str_raises(_)

\* the texts of a list of expressions
operand_strs(exprs) == [k \in 1..Len(exprs) |-> to_sympy_str(exprs[k])]

\* to_sympy_str ends with TypeError: a vector literal of one element is
\* typed as a number, so its operands are walked as rows, and an
\* expression is not iterable
to_sympy_str_raises(a) ==
    IF a.operator = "SYMBOL" THEN FALSE
    ELSE IF a.operator = "EXPR_COLLECTION"
        THEN IF a.expr_type.type = AstExprType_VECTOR
             THEN \E k \in 1..Len(a.operands) :
                     to_sympy_str_raises(a.operands[k])
             ELSE \E k \in 1..Len(a.operands) :
                     \/ ~is_list(a.operands[k])
                     \/ \E j \in 1..Len(a.operands[k].row) :
                            to_sympy_str_raises(a.operands[k].row[j])
    ELSE \E k \in 1..Len(a.operands) : to_sympy_str_raises(a.operands[k])

\* result_str of to_sympy_str before the final size-one wrap
result_str(a) ==
    IF a.operator = "SYMBOL" THEN <<a.operands[1].name>>
    ELSE IF a.operator = "EXPR_COLLECTION"
        THEN <<"Matrix", "(", "[">>
             \o Joined(IF a.expr_type.type = AstExprType_VECTOR
                       THEN operand_strs(a.operands)
                       ELSE [k \in 1..Len(a.operands) |->
                               <<"[">>
                               \o Joined(operand_strs(a.operands[k].row),
                                         ",")
                               \o <<"]">>],
                       ",")
             \o <<"]", ")">>
    ELSE IF a.operator = "DOT"
        THEN <<"(", "(">> \o to_sympy_str(a.operands[1])
             \o <<")", ".T", "*", "(">> \o to_sympy_str(a.operands[2])
             \o <<")", ")", "[", "0", ",", "0", "]">>
    ELSE IF a.operator = "CROSS"
        THEN <<"Matrix", "(">> \o to_sympy_str(a.operands[1])
             \o <<")", ".cross", "(", "Matrix", "(">>
             \o to_sympy_str(a.operands[2]) \o <<")", ")">>
    ELSE IF a.operator = "UMINUS"
        THEN <<"-", "(">> \o to_sympy_str(a.operands[1]) \o <<")">>
    ELSE IF a.operator = "INDEXING"
        THEN <<"(">> \o to_sympy_str(a.operands[1]) \o <<")", "[">>
             \o Joined(operand_strs(Tail(a.operands)), ",") \o <<"]">>
    ELSE IF a.operator = "TRANSPOSE_SHORT"
        THEN <<"(">> \o to_sympy_str(a.operands[1]) \o <<")", ".T">>
    ELSE IF a.operator = "NORM"
        THEN get_norm_sympy_str(a.operands[1].expr_type,
                                to_sympy_str(a.operands[1]))
    ELSE IF a.operator \in func_ops
        THEN <<operator_sympy_str(a.operator), "(">>
             \o Joined(operand_strs(a.operands), ",") \o <<")">>
    ELSE IF a.operator = "RANGE"
        THEN <<"(">> \o to_sympy_str(a.operands[1]) \o <<",">>
             \o to_sympy_str(a.operands[2]) \o <<",">>
             \o to_sympy_str(a.operands[3]) \o <<")">>
    ELSE IF a.operator \in {"LOOP_SUM", "LOOP_PRODUCT"}
        THEN <<IF a.operator = "LOOP_PRODUCT" THEN "Product" ELSE "Sum",
               "(">>
             \o Joined(operand_strs(a.operands), ",") \o <<")">>
    ELSE <<"(">> \o to_sympy_str(a.operands[1])
         \o <<")", operator_sympy_str(a.operator), "(">>
         \o to_sympy_str(a.operands[2]) \o <<")">>

\* AstExpression.to_sympy_str, when it returns
to_sympy_str(a) ==
    IF a.size_one_mat
    THEN <<"(">> \o result_str(a) \o <<")", "[", "0", ",", "0", "]">>
    ELSE result_str(a)

\* the expressions directly below an expression, the rows of a matrix
\* literal opened up
operand_exprs(a) ==
    IF a.operator = "SYMBOL" THEN <<>>
    ELSE Flatten([k \in 1..Len(a.operands) |->
                    IF is_list(a.operands[k]) THEN a.operands[k].row
                    ELSE <<a.operands[k]>>])

\* how many constructions lie above the deepest symbol
RECURSIVE AstDepth(_)
AstDepth(a) ==
    IF a.operator = "SYMBOL" THEN 0
    ELSE LET below == {AstDepth(operand_exprs(a)[k]) :
                            k \in 1..Len(operand_exprs(a))}
         IN  1 + (CHOOSE d \in below : \A other \in below : other <= d)

\* the declared variables: a number, vectors of length 1, 2 and n, and
\* matrices of size 1x1, 1x2 and 2x2
AstSymbols ==
    {AstSymbol("x", number_type, AstSymbolFlag_NORMAL),
     AstSymbol("s", AstExprType(AstExprType_VECTOR, <<Num(1), Num(1)>>),
               AstSymbolFlag_NORMAL),
     AstSymbol("w", AstExprType(AstExprType_VECTOR, <<Num(2), Num(1)>>),
               AstSymbolFlag_NORMAL),
     AstSymbol("u", AstExprType(AstExprType_VECTOR, <<PyStr("n"), Num(1)>>),
               AstSymbolFlag_NORMAL),
     AstSymbol("t", AstExprType(AstExprType_MATRIX, <<Num(1), Num(1)>>),
               AstSymbolFlag_NORMAL),
     AstSymbol("r", AstExprType(AstExprType_MATRIX, <<Num(1), Num(2)>>),
               AstSymbolFlag_NORMAL),
     AstSymbol("m", AstExprType(AstExprType_MATRIX, <<Num(2), Num(2)>>),
               AstSymbolFlag_NORMAL)}

AstLeaves == {AstExpression("SYMBOL", <<symbol>>) : symbol \in AstSymbols}

\* the second operands of the binary operators
OtherOperands ==
    {AstExpression("SYMBOL", <<symbol>>) :
        symbol \in {sy \in AstSymbols : sy.name \in {"x", "w", "r"}}}

UnaryAstOps == func_ops \cup {"UMINUS", "TRANSPOSE_SHORT"}
BinaryAstOps == {"ADD", "SUB", "MUL", "DIV", "POW", "DOT", "CROSS"}

\* the parser has reduced a symbol to an expression
AstInit ==
    /\ entry = "AstExpression"
    /\ var_list = <<>>
    /\ diff_var_list = <<>>
    /\ expr = Num(0)
    /\ class_name = ""
    /\ package = ""
    /\ nohessian = FALSE
    /\ modifier_list = <<>>
    /\ pc = "ast"
    /\ first_var_ind = 0
    /\ second_var_ind = 0
    /\ num_tab = 0
    /\ out = <<>>
    /\ file_handler = "none"
    /\ fresh_parser
    /\ fresh_lexer
    /\ parsed_args = <<>>
    /\ code_gen_config = <<>>
    /\ ast_expr \in AstLeaves
    /\ sympy_str = <<>>

\* the expression built so far can become an operand
can_construct == pc = "ast" /\ AstDepth(ast_expr) < MaxAstDepth

\* AstExpression(operator, operands) over the expression built so far:
\* the new node, or the IndexError of its constructor
constructed(operator, operands) ==
    /\ IF AstExpression_raises(operator, operands)
       THEN /\ pc' = "raised"
            /\ error' = "IndexError"
            /\ UNCHANGED ast_expr
       ELSE /\ pc' = "ast"
            /\ ast_expr' = AstExpression(operator, operands)
            /\ UNCHANGED error
    /\ UNCHANGED <<entry, var_list, diff_var_list, expr, class_name, package,
                   nohessian, modifier_list, first_var_ind, second_var_ind,
                   num_tab, out, file_handler, config_state, sympy_str,
                   lexer_state, program_txt, environment, for_loop_vars,
                   const_list, symbol_list, ast_exprs, sympy_locals,
                   dummy_count, runs>>

\* p_math_func_call, p_uminus and p_transpose_short
AstExpression_unary ==
    /\ can_construct
    /\ \E operator \in UnaryAstOps : constructed(operator, <<ast_expr>>)

\* p_binary_op, the expression built so far on either side
AstExpression_binary ==
    /\ can_construct
    /\ \E operator \in BinaryAstOps, other \in OtherOperands :
        \/ constructed(operator, <<ast_expr, other>>)
        \/ constructed(operator, <<other, ast_expr>>)

\* p_vector_of_exprs and p_matrix_of_exprs
AstExpression_collection ==
    /\ can_construct
    /\ \E other \in OtherOperands :
        \/ constructed("EXPR_COLLECTION", <<ast_expr>>)
        \/ constructed("EXPR_COLLECTION", <<ast_expr, other>>)
        \/ constructed("EXPR_COLLECTION", <<Row(<<ast_expr>>)>>)
        \/ constructed("EXPR_COLLECTION", <<Row(<<ast_expr, other>>)>>)

\* p_vector_index and p_matrix_index, with literal indices
AstExpression_indexing ==
    LET zero == AstExpression("SYMBOL",
                    <<AstSymbol("0", number_type, AstSymbolFlag_NORMAL)>>)
        one == AstExpression("SYMBOL",
                    <<AstSymbol("1", number_type, AstSymbolFlag_NORMAL)>>)
    IN  /\ can_construct
        /\ \/ constructed("INDEXING", <<ast_expr, one, zero>>)
           \/ constructed("INDEXING", <<ast_expr, zero, one>>)

\* p_loop_expression over one range whose bounds are literals
AstExpression_loop ==
    LET sym(name) == AstExpression("SYMBOL",
                        <<AstSymbol(name, number_type,
                                    AstSymbolFlag_USED_IN_LOOP)>>)
    IN  /\ can_construct
        /\ \E operator \in {"LOOP_SUM", "LOOP_PRODUCT"} :
            constructed(operator,
                        <<ast_expr,
                          AstExpression("RANGE",
                                        <<sym("i"), sym("0"), sym("2")>>)>>)

\* expr.to_sympy_str() returns its text or ends with TypeError
to_sympy_str_called ==
    /\ pc = "ast"
    /\ IF to_sympy_str_raises(ast_expr)
       THEN /\ pc' = "raised"
            /\ error' = "TypeError"
            /\ UNCHANGED sympy_str
       ELSE /\ pc' = "str"
            /\ sympy_str' = to_sympy_str(ast_expr)
            /\ UNCHANGED error
    /\ UNCHANGED <<entry, var_list, diff_var_list, expr, class_name, package,
                   nohessian, modifier_list, first_var_ind, second_var_ind,
                   num_tab, out, file_handler, config_state, ast_expr,
                   lexer_state, program_txt, environment, for_loop_vars,
                   const_list, symbol_list, ast_exprs, sympy_locals,
                   dummy_count, runs>>

AstNext ==
    \/ AstExpression_unary
    \/ AstExpression_binary
    \/ AstExpression_collection
    \/ AstExpression_indexing
    \/ AstExpression_loop
    \/ to_sympy_str_called

AstSpec == AstInit /\ [][AstNext]_vars

-----------------------------------------------------------------------------
(* Reading the generated code back.                                        *)
(* The method bodies are read as a Java runtime would run them: counted    *)
(* loops are unrolled, `if (i != j)` is decided, and every write to a slot *)
(* or a cell becomes an event                                              *)
(*   [cell |-> the indices written, fn |-> the function called ("" for a   *)
(*    copy), src |-> the cell copied from (<<>> for a call)].              *)

\* the value of an index of the generated code: a loop counter or a literal
Val(s, env) ==
    IF s = "i" THEN env.i
    ELSE IF s = "j" THEN env.j
    ELSE CHOOSE n \in 0..(n_diff + 1) : ToString(n) = s

\* a part of a concatenated method name: Integer.toString(counter) or text
Text(s, env) ==
    IF s = "i" THEN ToString(env.i)
    ELSE IF s = "j" THEN ToString(env.j)
    ELSE s

\* how many lines after the first are nested deeper than it
BlockLen(lines) ==
    CHOOSE m \in 0..(Len(lines) - 1) :
        /\ \A q \in 2..(m + 1) : lines[q].ind > lines[1].ind
        /\ m + 1 = Len(lines) \/ lines[m + 2].ind <= lines[1].ind

RECURSIVE Events(_, _), Iterate(_, _, _, _, _)

Iterate(block, env, counter, v, below) ==
    IF v >= below THEN <<>>
    ELSE Events(block, IF counter = "i" THEN [env EXCEPT !.i = v]
                       ELSE [env EXCEPT !.j = v])
         \o Iterate(block, env, counter, v + 1, below)

Events(lines, env) ==
    IF Len(lines) = 0 THEN <<>>
    ELSE IF lines[1].k = "for_lt" THEN
        Iterate(SubSeq(lines, 2, 1 + BlockLen(lines)), env, lines[1].a[1],
                Val(lines[1].a[2], env), Val(lines[1].a[3], env))
        \o Events(SubSeq(lines, 2 + BlockLen(lines), Len(lines)), env)
    ELSE IF lines[1].k = "if_ne" THEN
        (IF Val(lines[1].a[1], env) # Val(lines[1].a[2], env)
         THEN Events(SubSeq(lines, 2, 1 + BlockLen(lines)), env) ELSE <<>>)
        \o Events(SubSeq(lines, 2 + BlockLen(lines), Len(lines)), env)
    ELSE IF lines[1].k = "method_name" THEN
        Events(Tail(lines),
               [env EXCEPT !.methodName =
                    Join([q \in 1..(Len(lines[1].a) - 1) |->
                            Text(lines[1].a[q + 1], env)], "")])
    ELSE IF lines[1].k = "get_method" THEN
        Events(Tail(lines), [env EXCEPT !.method = env.methodName])
    ELSE IF lines[1].k = "invoke_cell" THEN
        <<[cell |-> <<Val(lines[1].a[2], env), Val(lines[1].a[3], env)>>,
           fn |-> env.method, src |-> <<>>]>>
        \o Events(Tail(lines), env)
    ELSE IF lines[1].k = "invoke_slot" THEN
        <<[cell |-> <<Val(lines[1].a[2], env)>>,
           fn |-> env.method, src |-> <<>>]>>
        \o Events(Tail(lines), env)
    ELSE IF lines[1].k = "cell_assign" THEN
        <<[cell |-> <<Val(lines[1].a[2], env), Val(lines[1].a[3], env)>>,
           fn |-> lines[1].a[4], src |-> <<>>]>>
        \o Events(Tail(lines), env)
    ELSE IF lines[1].k = "slot_assign" THEN
        <<[cell |-> <<Val(lines[1].a[2], env)>>,
           fn |-> lines[1].a[3], src |-> <<>>]>>
        \o Events(Tail(lines), env)
    ELSE IF lines[1].k = "cell_copy" THEN
        <<[cell |-> <<Val(lines[1].a[2], env), Val(lines[1].a[3], env)>>,
           fn |-> "",
           src |-> <<Val(lines[1].a[5], env), Val(lines[1].a[6], env)>>]>>
        \o Events(Tail(lines), env)
    ELSE Events(Tail(lines), env)

Env0 == [i |-> 0, j |-> 0, methodName |-> "", method |-> ""]

\* where the method called name is declared in the output (0: nowhere)
DeclIndex(name) ==
    IF \E p \in 1..Len(out) : out[p].k = "func_decl" /\ out[p].a[3] = name
    THEN CHOOSE p \in 1..Len(out) :
            out[p].k = "func_decl" /\ out[p].a[3] = name
    ELSE 0

\* the method called name has been written completely
Emitted(name) ==
    /\ DeclIndex(name) > 0
    /\ \E q \in (DeclIndex(name) + 1)..Len(out) : out[q].k = "method_close"

\* the lines between its declaration and its closing brace
MethodBody(name) ==
    SubSeq(out, DeclIndex(name) + 1,
           (CHOOSE q \in (DeclIndex(name) + 1)..Len(out) :
                /\ out[q].k = "method_close"
                /\ \A r \in (DeclIndex(name) + 1)..(q - 1) :
                        out[r].k # "method_close") - 1)

\* the names of the functions declared in the output, in output order
DeclaredNames ==
    [q \in 1..Len(SelectSeq(out, LAMBDA l : l.k = "func_decl")) |->
        SelectSeq(out, LAMBDA l : l.k = "func_decl")[q].a[3]]

IsPrefix(s, t) == Len(s) <= Len(t) /\ s = SubSeq(t, 1, Len(s))

HessianEvents == Events(MethodBody(DEFAULT_HESSIAN_FUNC_NAME), Env0)
JacobianEvents == Events(MethodBody(DEFAULT_JACOBIAN_FUNC_NAME), Env0)

-----------------------------------------------------------------------------
(* The Hessian method body *)

\* the text partialDerivative_<lo>_<hi> of the function cell (i, j) comes from
SecondOrderName(i, j) ==
    "partialDerivative_" \o ToString(IF i <= j THEN i ELSE j)
    \o "_" \o ToString(IF i <= j THEN j ELSE i)

\* event p of the body is the call that fills cell (i, j), i <= j
FillsByCall(ev, i, j) ==
    ev.cell = <<i, j>> /\ ev.fn = SecondOrderName(i, j) /\ ev.src = <<>>

\* the events ev write each of the n*n cells once: a cell on or above the
\* diagonal by its call, a cell below it as a later copy of its mirror
SymmetricFill(ev, n) ==
    /\ Len(ev) = n * n
    /\ \A i, j \in 0..(n - 1) :
        \E p \in 1..Len(ev) :
            /\ ev[p].cell = <<i, j>>
            /\ \A q \in 1..Len(ev) : ev[q].cell = <<i, j>> => q = p
            /\ IF i <= j THEN FillsByCall(ev[p], i, j)
               ELSE /\ ev[p].fn = ""
                    /\ ev[p].src = <<j, i>>
                    /\ \E q \in 1..(p - 1) : FillsByCall(ev[q], j, i)

\* C1: in every emitted Hessian method body, direct or reflective, each of
\* the n*n cells is written exactly once; a cell (i, j) with i <= j is filled
\* by the call of partialDerivative_i_j, and a cell (j, i) with i < j is a
\* copy of cell (i, j) made after that cell was filled, so both cells of a
\* mirrored pair come from partialDerivative_min(i,j)_max(i,j).
C1_HessianSymmetry ==
    Emitted(DEFAULT_HESSIAN_FUNC_NAME) => SymmetricFill(HessianEvents, n_diff)

\* a reflective and a direct Hessian body with a mirrored pair of cells
C1_Witness ==
    /\ Emitted(DEFAULT_HESSIAN_FUNC_NAME)
    /\ n_diff >= 3
    /\ \E p \in 1..Len(HessianEvents) : HessianEvents[p].src = <<1, 2>>
    /\ entry = "Hessian"
    /\ class_name = "Foo"

-----------------------------------------------------------------------------
(* The expanded differentiation list *)

ElementCount(var) ==
    IF var.var_type = NUMBER THEN 1
    ELSE IF var.var_type = VECTOR THEN var.dimension[1].n
    ELSE var.dimension[1].n * var.dimension[2].n

Rows(var) == IF var.var_type = NUMBER THEN 1 ELSE var.dimension[1].n
Cols(var) == IF var.var_type = MATRIX THEN var.dimension[2].n ELSE 1

\* the number of elements of the variables before the k-th
RECURSIVE CountBefore(_, _)
CountBefore(dvl, k) ==
    IF k <= 1 THEN 0
    ELSE CountBefore(dvl, k - 1) + ElementCount(dvl[k - 1])

\* xs lists the atoms of dvl: variables in list order, elements row-major
RowMajor(xs, dvl) ==
    /\ Len(xs) = CountBefore(dvl, Len(dvl) + 1)
    /\ \A k \in 1..Len(dvl) :
        \A r \in 0..(Rows(dvl[k]) - 1), c \in 0..(Cols(dvl[k]) - 1) :
            xs[CountBefore(dvl, k) + r * Cols(dvl[k]) + c + 1] =
                IF dvl[k].var_type = NUMBER THEN Sym(dvl[k].name)
                ELSE Elem(dvl[k].name, Num(r), Num(c))

\* the array or matrix the method called name allocates has side n
AllocatesSide(body, n) ==
    /\ Len(body) > 0
    /\ body[1].k \in {"new_array", "new_matrix"}
    /\ \A q \in 2..Len(body[1].a) : body[1].a[q] = ToString(n)

-----------------------------------------------------------------------------
(* The direct Jacobian *)

FirstOrderNames(n) == [k \in 1..n |-> "partialDerivative_" \o ToString(k - 1)]

ParamNames(vl) == Join([k \in 1..Len(vl) |-> vl[k].name], ", ")

\* the body allocates n slots and assigns slot k from the k-th first-order
\* function, called on the parameters; each called function is declared
\* once, before the method
DirectJacobian(body, ev, names, n, vl) ==
    /\ AllocatesSide(body, n)
    /\ \A q \in 1..Len(body) : body[q].k \in {"new_array", "slot_assign",
                                              "return"}
    /\ \A q \in 1..Len(body) :
            body[q].k = "slot_assign" => body[q].a[4] = ParamNames(vl)
    /\ body[Len(body)].k = "return"
    /\ Len(ev) = n
    /\ \A k \in 1..n :
        /\ ev[k].cell = <<k - 1>>
        /\ ev[k].fn = FirstOrderNames(n)[k]
        /\ \E p \in 1..n :
            /\ names[p] = ev[k].fn
            /\ \A q \in 1..Len(names) : names[q] = ev[k].fn => q = p

\* C3: with no class name, JavaJacobianCodeGenerator.gen_code emits the
\* functions partialDerivative_0 .. partialDerivative_(n-1) once each in
\* increasing order and then the jacobian method; the method allocates an
\* array of length n and assigns slot i from partialDerivative_i called on
\* the names of var_list in order, every called function was emitted before
\* the method exactly once, and no slot is left unassigned.
C3_DirectJacobian ==
    (entry = "Jacobian" /\ class_name = "") =>
        /\ IsPrefix(DeclaredNames,
                    FirstOrderNames(n_diff) \o <<DEFAULT_JACOBIAN_FUNC_NAME>>)
        /\ pc = "jacobian" => Len(DeclaredNames) = first_var_ind
        /\ pc = "done" =>
            /\ Len(DeclaredNames) = n_diff + 1
            /\ Emitted(DEFAULT_JACOBIAN_FUNC_NAME)
            /\ DirectJacobian(MethodBody(DEFAULT_JACOBIAN_FUNC_NAME),
                              JacobianEvents, DeclaredNames, n_diff, var_list)

\* a finished direct Jacobian over three or more atoms and two parameters
C3_Witness ==
    /\ entry = "Jacobian"
    /\ class_name = ""
    /\ pc = "done"
    /\ n_diff >= 3
    /\ Len(var_list) = 2
    /\ \E q \in 1..Len(out) : out[q].k = "slot_assign" /\ out[q].a[2] = "2"

-----------------------------------------------------------------------------
(* The second-order functions *)

\* the pairs (i, j) with 0 <= i <= j < n
Pairs(n) == {pr \in (0..(n - 1)) \X (0..(n - 1)) : pr[1] <= pr[2]}

\* the position of a pair when i increases first and j within i
Rank(pr, n) ==
    Cardinality({qr \in Pairs(n) :
                    qr[1] < pr[1] \/ (qr[1] = pr[1] /\ qr[2] <= pr[2])})

PairSeq(n) ==
    [q \in 1..Cardinality(Pairs(n)) |->
        CHOOSE pr \in Pairs(n) : Rank(pr, n) = q]

SecondOrderNames(n) ==
    [q \in 1..Len(PairSeq(n)) |->
        SecondOrderName(PairSeq(n)[q][1], PairSeq(n)[q][2])]

\* what gen_code(file, i, j, True) writes for each pair of prs, in order
RECURSIVE SingleDerivatives(_, _, _, _, _)
SingleDerivatives(prs, vl, dvl, e, mods) ==
    IF Len(prs) = 0 THEN <<>>
    ELSE derivative_gen_code(vl, dvl, e, mods, prs[1][1], prs[1][2], TRUE,
                             0, "True").lines
         \o SingleDerivatives(Tail(prs), vl, dvl, e, mods)

\* the calls of the events ev go to functions of names only
CallsOnly(ev, names) ==
    \A p \in 1..Len(ev) :
        ev[p].fn # "" => \E q \in 1..Len(names) : names[q] = ev[p].fn

\* C4: gen_code_all_second_order emits one function for each pair (i, j)
\* with 0 <= i <= j < n, n(n+1)/2 functions and none for i > j, named
\* partialDerivative_i_j, in increasing (i, j); each is the function the
\* single-derivative operation gen_code(file, i, j, True) writes (same name,
\* same expression differentiated by variable i and then by variable j), and
\* the direct Hessian body calls only functions of this set.
C4_SecondOrderFunctions ==
    entry = "Hessian" =>
        /\ IsPrefix(DeclaredNames,
                    SecondOrderNames(n_diff) \o <<DEFAULT_HESSIAN_FUNC_NAME>>)
        /\ pc = "done" =>
            /\ 2 * (Len(DeclaredNames) - 1) = n_diff * (n_diff + 1)
            /\ SubSeq(out, 1, DeclIndex(DEFAULT_HESSIAN_FUNC_NAME) - 1) =
                    SingleDerivatives(PairSeq(n_diff), var_list,
                                      diff_var_list, expr, modifier_list)
            /\ class_name = "" =>
                    CallsOnly(HessianEvents, SecondOrderNames(n_diff))

\* a finished direct Hessian over three or more atoms whose mixed second
\* derivative is not a constant
C4_Witness ==
    /\ entry = "Hessian"
    /\ class_name = ""
    /\ pc = "done"
    /\ n_diff >= 3
    /\ \E q \in 1..Len(out) : out[q].k = "assign"
    /\ \E q \in 1..Len(out) :
            out[q].k = "func_decl" /\ out[q].a[3] = "partialDerivative_1_2"

-----------------------------------------------------------------------------
(* The reflective bodies *)

UsesReflection(body) == \E q \in 1..Len(body) : body[q].k = "get_method"

\* the names of the functions declared after line lo and before line hi
NamesBetween(lo, hi) ==
    {out[q].a[3] : q \in {r \in (lo + 1)..(hi - 1) : out[r].k = "func_decl"}}

Called(ev) == {ev[p].fn : p \in {q \in 1..Len(ev) : ev[q].fn # ""}}

\* the parameter-type array of a reflective body: one entry per parameter,
\* in order, and with the parameter names it spells the parameter list of
\* every function declared after line lo and before line hi
ArgClassesMatch(body, vl, lo, hi) ==
    /\ \E q \in 1..Len(body) :
            body[q].k = "arg_classes_new" /\ body[q].a[2] = ToString(Len(vl))
    /\ Len(SelectSeq(body, LAMBDA l : l.k = "arg_class")) = Len(vl)
    /\ \A k \in 1..Len(vl) :
        /\ SelectSeq(body, LAMBDA l : l.k = "arg_class")[k].a[2]
                = ToString(k - 1)
        /\ SelectSeq(body, LAMBDA l : l.k = "arg_class")[k].a[3]
                = (IF vl[k].var_type = NUMBER THEN "double"
                   ELSE IF vl[k].var_type = VECTOR THEN "double[]"
                   ELSE "double[][]")
    /\ \A r \in (lo + 1)..(hi - 1) :
            out[r].k = "func_decl" =>
                out[r].a[4] =
                    Join([k \in 1..Len(vl) |->
                            SelectSeq(body, LAMBDA l : l.k = "arg_class")[k].a[3]
                            \o " " \o vl[k].name], ", ")

\* the method called name: reflective exactly when a class name is supplied,
\* and then it looks up the functions declared before it since line lo, with
\* their parameter types, and fills what the direct body fills
ReflectiveAsDirect(name, body, ev, cname, lo, direct_lines) ==
    /\ UsesReflection(body) <=> cname # ""
    /\ UsesReflection(body) =>
        /\ Called(ev) = NamesBetween(lo, DeclIndex(name))
        /\ ArgClassesMatch(body, var_list, lo, DeclIndex(name))
        /\ ev = Events(direct_lines, Env0)

\* C5: the Jacobian and the Hessian generator write the reflective body
\* exactly when a class name is supplied (the class generator always
\* supplies one) and the direct body otherwise; the method names the
\* reflective loops construct are exactly the derivative functions emitted
\* for that method, the parameter-type array has one entry per element of
\* var_list, in order, of the type of the emitted declarations, and the
\* reflective body fills the same slots and cells from the same functions as
\* the direct body for the same var_list and diff_var_list.
C5_ReflectiveMatchesDirect ==
    /\ Emitted(DEFAULT_JACOBIAN_FUNC_NAME) =>
        ReflectiveAsDirect(
            DEFAULT_JACOBIAN_FUNC_NAME,
            MethodBody(DEFAULT_JACOBIAN_FUNC_NAME), JacobianEvents,
            IF entry = "ExprClass" THEN "supplied" ELSE class_name,
            DeclIndex(DEFAULT_EVAL_FUNC_NAME),
            gen_simple_jacobian_body(GenState(0), var_list,
                                     diff_var_list).lines)
    /\ Emitted(DEFAULT_HESSIAN_FUNC_NAME) =>
        ReflectiveAsDirect(
            DEFAULT_HESSIAN_FUNC_NAME,
            MethodBody(DEFAULT_HESSIAN_FUNC_NAME), HessianEvents,
            IF entry = "ExprClass" THEN "supplied" ELSE class_name,
            DeclIndex(DEFAULT_JACOBIAN_FUNC_NAME),
            gen_simple_hessian_body(GenState(0), var_list,
                                    diff_var_list).lines)

\* a class with a vector and a matrix parameter, both methods reflective
C5_Witness ==
    /\ entry = "ExprClass"
    /\ pc = "done"
    /\ Len(var_list) = 2
    /\ var_list[1].var_type = VECTOR
    /\ var_list[2].var_type = MATRIX
    /\ n_diff >= 3
    /\ UsesReflection(MethodBody(DEFAULT_HESSIAN_FUNC_NAME))
    /\ UsesReflection(MethodBody(DEFAULT_JACOBIAN_FUNC_NAME))

-----------------------------------------------------------------------------
(* The expression code generator *)

\* the write site and the text of each line
KindText(lines) == [q \in 1..Len(lines) |-> <<lines[q].k, lines[q].a>>]

IsLeaf(e) == e.op \in {"Number", "Symbol", "MatrixElement"}

Declared(e, vl) ==
    e.op = "MatrixElement" => \E k \in 1..Len(vl) : vl[k].name = e.name

LiteralIndices(e) == \A q \in 1..Len(e.args) : e.args[q].op = "Number"

IndexText(ix) == IF ix.op = "Number" THEN ToString(ix.n) ELSE ix.name

\* the reference of a leaf: the literal, the symbol, the element x[r][c] of
\* a matrix or the element x[r] of a vector
Reference(e, vl) ==
    IF e.op = "Number" THEN ToString(e.n) \o ".00000000000000"
    ELSE IF e.op = "Symbol" THEN e.name
    ELSE IF (CHOOSE k \in 1..Len(vl) : vl[k].name = e.name) \in
                {k \in 1..Len(vl) : vl[k].var_type = VECTOR}
        THEN e.name \o "[" \o IndexText(e.args[1]) \o "]"
    ELSE e.name \o "[" \o IndexText(e.args[1]) \o "]["
                \o IndexText(e.args[2]) \o "]"

\* lowering wrote nothing and left the temporary counter alone
NothingWritten(st, st1) == st1.lines = st.lines /\ st1.nt = st.nt

\* the function consists of a declaration and the return of ref
ReturnsOnly(lines, ref) ==
    /\ Len(lines) = 3
    /\ lines[1].k = "func_decl"
    /\ Tail(KindText(lines)) = << <<"return", <<ref>> >>,
                                  <<"func_end", <<>> >> >>

BoundText(b) == IF b.op = "Number" THEN ToString(b.n) ELSE b.name

\* what the lowering of a loop over the leaf body writes after the function
\* declaration; k is the number of limits
LoopShape(op, leaf, limits, vl) ==
    << <<"loop_init", <<"__temp_0",
                        IF op = "Product" THEN "1.000000" ELSE "0.000000">> >> >>
    \o [q \in 1..Len(limits) |->
            <<"for", <<limits[q].args[1].name, BoundText(limits[q].args[2]),
                       limits[q].args[1].name, BoundText(limits[q].args[3]),
                       limits[q].args[1].name, "1">> >>]
    \o << <<"accum", <<"__temp_0", IF op = "Product" THEN "*=" ELSE "+=",
                       Reference(leaf, vl)>> >> >>
    \o [q \in 1..Len(limits) |-> <<"close", <<>> >>]
    \o << <<"return", <<"__temp_0">> >>, <<"func_end", <<>> >> >>

\* C7: a Sum (Product) node with k limits lowers to the accumulator
\* declaration initialised to 0 (1), k nested counted loops in limit order
\* from the lower to the upper bound inclusive in steps of 1, the
\* accumulation `+=` (`*=`) of the body inside the innermost loop, k closing
\* braces and the return of the accumulator; for `for i in [0, 4] sum(x[i])`
\* one loop from 0 to 4 accumulates x[i] into a zero-initialised temporary.
C7_LoopLowering ==
    (/\ entry = "Expr"
     /\ expr.op \in {"Sum", "Product"}
     /\ get_operator_type(expr) \in {"SUM_LOOP", "PRODUCT_LOOP"}
     /\ IsLeaf(expr.args[1])
     /\ Declared(expr.args[1], var_list)
     /\ pc # "expr") =>
        /\ pc = "done"
        /\ Tail(KindText(out)) =
                LoopShape(expr.op, expr.args[1], Tail(expr.args), var_list)
        /\ \A q \in 1..Len(out) :
                out[q].k = "accum" => out[q].ind = Len(expr.args)

\* the same with the body restricted to what does not index by a counter
C7_LoopLoweringLiteral ==
    (/\ entry = "Expr"
     /\ expr.op \in {"Sum", "Product"}
     /\ get_operator_type(expr) \in {"SUM_LOOP", "PRODUCT_LOOP"}
     /\ IsLeaf(expr.args[1])
     /\ Declared(expr.args[1], var_list)
     /\ LiteralIndices(expr.args[1])
     /\ pc # "expr") =>
        /\ pc = "done"
        /\ Tail(KindText(out)) =
                LoopShape(expr.op, expr.args[1], Tail(expr.args), var_list)
        /\ \A q \in 1..Len(out) :
                out[q].k = "accum" => out[q].ind = Len(expr.args)

MathCall(op) ==
    IF op = "Abs" THEN "Math.abs" ELSE "Math." \o op

\* C8: a sin, cos, tan, abs or log node over an operand named a lowers to one
\* statement assigning the one-argument math-library call on a to a fresh
\* temporary, for each of the five operators, so generation completes.
C8_UnaryMathCall ==
    (/\ entry = "Expr"
     /\ expr.op \in {"sin", "cos", "tan", "Abs", "log"}
     /\ expr.args[1].op = "Symbol"
     /\ pc # "expr") =>
        /\ pc = "done"
        /\ Tail(KindText(out)) =
            << <<"assign", <<"__temp_0",
                             MathCall(expr.op) \o "("
                                \o expr.args[1].name \o ")">> >>,
               <<"return", <<"__temp_0">> >>,
               <<"func_end", <<>> >> >>

\* the same for the four operators other than abs
C8_UnaryMathCallButAbs ==
    (/\ entry = "Expr"
     /\ expr.op \in {"sin", "cos", "tan", "log"}
     /\ expr.args[1].op = "Symbol"
     /\ pc # "expr") =>
        /\ pc = "done"
        /\ Tail(KindText(out)) =
            << <<"assign", <<"__temp_0",
                             MathCall(expr.op) \o "("
                                \o expr.args[1].name \o ")">> >>,
               <<"return", <<"__temp_0">> >>,
               <<"func_end", <<>> >> >>

-----------------------------------------------------------------------------
(* Operators without a lowering template *)

\* the sympy classes the generator has a statement, a loop or a reference for
Lowered == {"Number", "Symbol", "MatrixElement", "Sum", "Product", "Pow",
            "log", "sin", "cos", "tan", "cot", "Add", "Mul"}

\* lowering e reaches a node of a class outside Lowered: e is not a number,
\* and it is such a node or lowers an operand that reaches one
RECURSIVE ReachesNoTemplate(_)
ReachesNoTemplate(e) ==
    /\ ~is_number(e)
    /\ \/ e.op \notin Lowered
       \/ /\ e.op \in {"Sum", "Product"}
          /\ ReachesNoTemplate(e.args[1])
       \/ /\ e.op \in Lowered \ {"Number", "Symbol", "MatrixElement", "Sum",
                                "Product"}
          /\ \E q \in 1..Len(e.args) : ReachesNoTemplate(e.args[q])

\* e and the expressions below it
RECURSIVE SubExprs(_)
SubExprs(e) ==
    {e} \cup UNION {SubExprs(e.args[q]) : q \in 1..Len(e.args)}

\* lowering ended with the exception, without a statement or an accumulation
\* for the node it started from (its temporary is __temp_0)
RaisedWithoutStatement(st1) ==
    /\ st1.raised
    /\ \A q \in 1..Len(st1.lines) :
            st1.lines[q].k \in {"assign", "accum"} =>
                st1.lines[q].a[1] # "__temp_0"
    /\ \A q \in 1..Len(st1.lines) : st1.lines[q].k # "return"

\* the last function declared in lines was not given its return
LastFunctionOpen(lines) ==
    \E d \in 1..Len(lines) :
        /\ lines[d].k = "func_decl"
        /\ \A q \in (d + 1)..Len(lines) :
                lines[q].k \notin {"func_decl", "return", "func_end"}

\* C9: when _gen_code_expr reaches a node whose operator has no lowering
\* template it raises: lowering any expression that contains such a node
\* ends with the exception and with no statement for that expression (so
\* none for the node and none for any of its ancestors), the enclosing
\* function gets no return statement, and the run stops there.
C9_NoTemplateRaises ==
    /\ entry = "Expr" =>
        \A e \in SubExprs(expr) :
            ReachesNoTemplate(e) =>
                \A rel \in RelOutcomes :
                    RaisedWithoutStatement(
                        gen_code_expr(var_list, e, GenState(1), rel))
    /\ (entry = "Expr" /\ ReachesNoTemplate(expr) /\ pc # "expr") =>
            pc = "raised"
    /\ pc = "raised" => LastFunctionOpen(out) /\ ~ENABLED Next

\* the cosine of a sum whose second operand has no template, after the
\* statement of the first operand was written
C9_Witness ==
    /\ entry = "Expr"
    /\ pc = "raised"
    /\ expr.op = "cos"
    /\ ReachesNoTemplate(expr)
    /\ \E q \in 1..Len(out) : out[q].k = "assign"

-----------------------------------------------------------------------------
(* The class assembler *)

\* what a line opens: a section of the class file or a function (by name)
Opens(l) ==
    IF l.k = "func_decl" THEN l.a[3]
    ELSE IF l.k \in {"header_comment", "package", "class_open",
                     "class_close"} THEN l.k
    ELSE ""

Sections(lines) ==
    SelectSeq([q \in 1..Len(lines) |-> Opens(lines[q])], LAMBDA t : t # "")

ClassSections(n, pkg, nohess) ==
    <<"header_comment">>
    \o (IF pkg # "" THEN <<"package">> ELSE <<>>)
    \o <<"class_open", "eval">>
    \o FirstOrderNames(n) \o <<"jacobian">>
    \o (IF nohess THEN <<>> ELSE SecondOrderNames(n) \o <<"hessian">>)
    \o <<"class_close">>

\* C10: ExprClassCodeGenerator.gen_code writes, in this order and each once,
\* the provenance comment (generator identity and do-not-edit notice), the
\* package line if a package is configured, the class-open line, the eval
\* method, the first-order functions and the jacobian method, the
\* second-order functions and the hessian method unless nohessian, and the
\* class-close line; nothing precedes the comment or follows the class-close.
C10_ClassOrder ==
    entry = "ExprClass" =>
        /\ IsPrefix(Sections(out),
                    ClassSections(n_diff, package, nohessian))
        /\ Len(out) > 0 =>
            /\ out[1].k = "header_comment"
            /\ out[1].a[1] = CODE_GENERATOR_VERSION
            /\ out[1].a[2] = REPOSITORY_LINK
            /\ out[1].a[3] =
                "DO NOT EDIT UNLESS YOU ARE SURE THAT YOU KNOW WHAT YOU ARE DOING"
        /\ pc = "done" =>
            /\ Sections(out) = ClassSections(n_diff, package, nohessian)
            /\ out[Len(out)].k = "class_close"
            /\ ~ENABLED Next

\* a finished class with a package line and a Hessian over two atoms or more
C10_Witness ==
    /\ entry = "ExprClass"
    /\ pc = "done"
    /\ package # ""
    /\ ~nohessian
    /\ n_diff >= 2
    /\ out[Len(out)].k = "class_close"

-----------------------------------------------------------------------------
(* The nohessian flag *)

\* the lines of a further generator call follow those written so far
Then(acc, st) == IF acc.raised THEN acc ELSE [st EXCEPT !.lines = acc.lines \o @]

RECURSIVE RunFirstOrder(_, _, _, _, _, _, _)
RunFirstOrder(vl, dvl, e, mods, k, acc, rel) ==
    IF acc.raised \/ k >= get_num_expanded_diff_var(dvl) THEN acc
    ELSE RunFirstOrder(vl, dvl, e, mods, k + 1,
                       Then(acc, first_order_step(vl, dvl, e, mods, k,
                                                  acc.tab, rel)),
                       rel)

RunHeader(pkg, cname) ==
    [gen_code_header_lines(GenState(0), pkg, cname) EXCEPT !.tab = tab(@)]

RunEval(vl, e, acc, rel) ==
    Then(acc, expr_gen_code(vl, e, DEFAULT_EVAL_FUNC_NAME,
                            <<"public", "static">>, acc.tab, rel))

RunJacobian(vl, dvl, mods, cname, acc) ==
    IF acc.raised THEN acc
    ELSE Then(acc, gen_jacobian_code(vl, dvl, mods, cname,
                                     DEFAULT_JACOBIAN_FUNC_NAME, acc.tab))

RunFooter(acc) ==
    IF acc.raised THEN acc
    ELSE [acc EXCEPT !.lines = Append(@, Line("class_close", <<>>,
                                              untab(acc.tab))),
                     !.tab = untab(@)]

\* the whole run of ExprClassCodeGenerator.gen_code with nohessian = True
NoHessianRun(vl, dvl, e, mods, pkg, cname, rel) ==
    RunFooter(
        RunJacobian(vl, dvl, mods, cname,
            RunFirstOrder(vl, dvl, e, mods, 0,
                          RunEval(vl, e, RunHeader(pkg, cname), rel), rel)))

\* the section a line belongs to: what the last opening line before it opens
RECURSIVE SectionOf(_, _)
SectionOf(lines, q) ==
    IF q = 0 THEN ""
    ELSE IF Opens(lines[q]) # "" THEN Opens(lines[q])
    ELSE SectionOf(lines, q - 1)

\* the output without the second-order functions and the hessian method
WithoutHessian(lines, n) ==
    LET drop == {SecondOrderNames(n)[q] : q \in 1..Len(SecondOrderNames(n))}
                \cup {DEFAULT_HESSIAN_FUNC_NAME}
        keep == {q \in 1..Len(lines) : SectionOf(lines, q) \notin drop}
        Nth(S, k) == CHOOSE q \in S : Cardinality({r \in S : r <= q}) = k
    IN  [k \in 1..Cardinality(keep) |-> lines[Nth(keep, k)]]

SameAsNoHessian(lines, level, r) == lines = r.lines /\ level = r.tab

\* C11: for the same variable lists, expression and class name, the file
\* written with nohessian = true is the file written with nohessian = false
\* without the second-order functions and the hessian method: header, eval,
\* first-order functions, jacobian, footer and the final indentation level
\* are the same in both runs.
C11_NoHessianFrame ==
    (entry = "ExprClass" /\ pc \in {"done", "raised"}) =>
        \E rel \in RelOutcomes :
            SameAsNoHessian(
                IF nohessian THEN out ELSE WithoutHessian(out, n_diff),
                num_tab,
                NoHessianRun(var_list, diff_var_list, expr, modifier_list,
                             package, config_classname(class_name), rel))

\* a finished class with second-order functions and a hessian method to drop
C11_Witness ==
    /\ entry = "ExprClass"
    /\ pc = "done"
    /\ ~nohessian
    /\ n_diff >= 2
    /\ Emitted(DEFAULT_HESSIAN_FUNC_NAME)
    /\ Len(WithoutHessian(out, n_diff)) < Len(out)
    /\ Len(WithoutHessian(out, n_diff)) > 0

-----------------------------------------------------------------------------
(* Name resolution, read off the program text alone: the names a program   *)
(* declares, in text order, and the first name it uses before that.        *)

Declare(name, r) ==
    IF r.missing # "" THEN r ELSE [r EXCEPT !.declared = @ \cup {name}]

Lookup(name, r) ==
    IF r.missing # "" \/ name \in r.declared THEN r
    ELSE [r EXCEPT !.missing = name]

RECURSIVE Resolve(_, _)
RECURSIVE ResolveAll(_, _)

ResolveAll(ts, r) ==
    IF Len(ts) = 0 THEN r ELSE ResolveAll(Tail(ts), Resolve(ts[1], r))

Resolve(t, r) ==
    IF t.op = "INTEGER" THEN r
    ELSE IF t.op = "ID" THEN Lookup(t.name, r)
    ELSE IF t.op = "vector_index" THEN Lookup(t.name, ResolveAll(t.args, r))
    ELSE IF t.op = "for_statement" THEN Declare(t.name, ResolveAll(t.args, r))
    ELSE ResolveAll(t.args, r)

RECURSIVE ResolveDecls(_, _)
ResolveDecls(ds, r) ==
    IF Len(ds) = 0 THEN r
    ELSE ResolveDecls(Tail(ds), Declare(ds[1].name, Resolve(ds[1].value, r)))

DeclaredVars(prog) == {prog.vars[k].name : k \in 1..Len(prog.vars)}

\* the first name the program uses without having declared it ("" if none)
FirstUndeclared(prog) ==
    ResolveDecls(prog.exprs,
        [ResolveDecls(prog.consts, [declared |-> {}, missing |-> ""])
            EXCEPT !.declared = @ \cup DeclaredVars(prog)]).missing

\* the names a tree mentions
RECURSIVE NamesIn(_)
NamesIn(t) ==
    (IF t.op \in {"ID", "vector_index", "for_statement"} THEN {t.name} ELSE {})
    \cup UNION {NamesIn(t.args[k]) : k \in 1..Len(t.args)}

ReferencedNames(prog) ==
    UNION {NamesIn(prog.consts[k].value) : k \in 1..Len(prog.consts)}
    \cup UNION {NamesIn(prog.exprs[k].value) : k \in 1..Len(prog.exprs)}

UndeclaredAborts(prog, missing) ==
    IF missing # ""
    THEN pc = "raised" /\ error = "KeyError: " \o missing
    ELSE error \notin {"KeyError: " \o name : name \in ReferencedNames(prog)}

\* C12: once the parser is through a program (or has given up), a program
\* that uses a name before any declaration of it in the same program has
\* been aborted with a KeyError naming the first such name, and a program
\* that declares every name before its use has raised no such error.
C12_UndeclaredAborts ==
    pc \notin {"idle", "parse"} =>
        UndeclaredAborts(program_txt, FirstUndeclared(program_txt))

\* C12 in the first parse of a process, where the environment starts empty
C12_UndeclaredAbortsFirstParse ==
    (pc \notin {"idle", "parse"} /\ Len(runs) = 0) =>
        UndeclaredAborts(program_txt, FirstUndeclared(program_txt))

\* the first parse of a process has aborted on an undeclared name
C12_FirstParseWitness ==
    /\ Len(runs) = 0
    /\ pc = "raised"
    /\ FirstUndeclared(program_txt) = "z"
    /\ error = "KeyError: z"

-----------------------------------------------------------------------------
(* The symbols of a program, read off its text: the declared variables in  *)
(* declaration order, then the counters of its for-clauses in text order.  *)

RECURSIVE CountersIn(_)
RECURSIVE CountersInAll(_)

CountersInAll(ts) ==
    IF Len(ts) = 0 THEN <<>> ELSE CountersIn(ts[1]) \o CountersInAll(Tail(ts))

CountersIn(t) ==
    CountersInAll(t.args)
    \o (IF t.op = "for_statement" THEN <<t.name>> ELSE <<>>)

OwnLoopCounters(prog) ==
    CountersInAll([k \in 1..Len(prog.consts) |-> prog.consts[k].value])
    \o CountersInAll([k \in 1..Len(prog.exprs) |-> prog.exprs[k].value])

OwnSymbols(prog) ==
    [k \in 1..Len(prog.vars) |->
        [name |-> prog.vars[k].name, counter |-> FALSE]]
    \o [k \in 1..Len(OwnLoopCounters(prog)) |->
        [name |-> OwnLoopCounters(prog)[k], counter |-> TRUE]]

ReturnedSymbols(symbols) ==
    [k \in 1..Len(symbols) |->
        [name |-> symbols[k].name,
         counter |-> symbols[k].flag = AstSymbolFlag_USED_IN_LOOP]]

\* the parser has returned its three lists
parsed == pc \notin {"idle", "parse", "raised"}

\* C13: the symbol list a parse returns holds the variables the program
\* declares, in declaration order, followed by the loop counters of the
\* program's own for-clauses and nothing else, whatever was parsed before
\* in the same process.
C13_OwnSymbolsOnly ==
    parsed => ReturnedSymbols(symbol_list) = OwnSymbols(program_txt)

\* C13 for the first parse of a process
C13_OwnSymbolsOnlyFirstParse ==
    (parsed /\ Len(runs) = 0) =>
        ReturnedSymbols(symbol_list) = OwnSymbols(program_txt)

\* the first parse of a process returned a loop counter after the variables
C13_FirstParseWitness ==
    /\ parsed
    /\ Len(runs) = 0
    /\ Len(OwnLoopCounters(program_txt)) > 0
    /\ Len(symbol_list) = Len(program_txt.vars) + 1

-----------------------------------------------------------------------------
(* Two runs of the pipeline on one input *)

\* the second run of the process has ended, on the input of the first and
\* at the same point with as many lines (the installed sympy answered the
\* comparisons of the two runs alike)
SecondRunOfSameInput ==
    /\ Len(runs) = 1
    /\ pc \in {"done", "raised"}
    /\ runs[1].program_txt = program_txt
    /\ runs[1].nohessian = nohessian
    /\ runs[1].pc = pc
    /\ Len(runs[1].out) = Len(out)

\* C14: two consecutive runs of the pipeline on the same program text and
\* configuration write the same lines: the same functions in the same
\* order, the same temporary names and the same names of dummy variables.
C14_SameOutputTwice ==
    SecondRunOfSameInput => runs[1].out = out

\* C14 for the programs whose main expression holds at most one Dummy
C14_SameOutputTwiceOneDummy ==
    (SecondRunOfSameInput /\ Cardinality(dummy_atoms(expr)) <= 1) =>
        runs[1].out = out

\* a program was run twice to the end and wrote the same class twice
C14_OneDummyWitness ==
    /\ SecondRunOfSameInput
    /\ pc = "done"
    /\ Len(out) > 0
    /\ Cardinality(dummy_atoms(expr)) <= 1
    /\ runs[1].out = out

-----------------------------------------------------------------------------
(* The two variable lists against the symbol list of the parse *)

\* the symbols have been converted and the run has not stopped before
symbols_converted ==
    \/ pc \in {"exprs", "dummies", "gen_code", "header", "eval", "new_jacobian",
               "jacobian", "new_hessian", "hessian", "footer", "done"}
    \/ pc = "raised" /\ error = "" /\ Len(out) > 0

NamesOf(seq) == [k \in 1..Len(seq) |-> seq[k].name]

WithFlags(symbols, flags) ==
    SelectSeq(symbols, LAMBDA symbol : symbol.flag \in flags)

KindOf(symbol) ==
    IF symbol.type_info.type = AstExprType_NUMBER THEN NUMBER
    ELSE IF symbol.type_info.type = AstExprType_VECTOR THEN VECTOR
    ELSE MATRIX

\* sub is what is left of seq when the elements at some positions are removed
RECURSIVE IsSubsequence(_, _)
IsSubsequence(sub, seq) ==
    IF Len(sub) = 0 THEN TRUE
    ELSE IF Len(seq) = 0 THEN FALSE
    ELSE IF sub[1] = seq[1] THEN IsSubsequence(Tail(sub), Tail(seq))
    ELSE IsSubsequence(sub, Tail(seq))

VarListsOf(symbols, vl, dvl, locals) ==
    /\ NamesOf(vl) = NamesOf(WithFlags(symbols,
            {AstSymbolFlag_EQUIVALENT, AstSymbolFlag_NORMAL,
             AstSymbolFlag_NO_DIFF}))
    /\ \A k \in 1..Len(vl) :
            vl[k].var_type = KindOf(WithFlags(symbols,
                {AstSymbolFlag_EQUIVALENT, AstSymbolFlag_NORMAL,
                 AstSymbolFlag_NO_DIFF})[k])
    /\ NamesOf(dvl) = NamesOf(WithFlags(symbols, {AstSymbolFlag_NORMAL}))
    /\ IsSubsequence(dvl, vl)
    /\ \A k \in 1..Len(symbols) : symbols[k].name \in DOMAIN locals

\* C15: var_list is the symbols of the parse that are not loop counters, in
\* their order; diff_var_list is those of them whose flag is NORMAL, in the
\* same order, hence a subsequence of var_list; nodiff and equivalent
\* variables are parameters only, and a loop counter is in neither list
\* but is bound in the symbol table.
C15_VarLists ==
    symbols_converted =>
        VarListsOf(symbol_list, var_list, diff_var_list, sympy_locals)

\* a parse with a parameter that is no differentiation variable and a loop
\* counter that is no parameter
C15_Witness ==
    /\ symbols_converted
    /\ Len(diff_var_list) > 0
    /\ Len(diff_var_list) < Len(var_list)
    /\ Len(var_list) < Len(symbol_list)

-----------------------------------------------------------------------------
(* What parse_expr_specification returns for a program text in a process   *)
(* that has parsed nothing before                                          *)

RECURSIVE ParseConsts(_, _)
ParseConsts(ds, y) ==
    IF Len(ds) = 0 \/ y.raised # "" THEN y
    ELSE ParseConsts(Tail(ds),
            const_declaration(ds[1].name, y,
                p_expression(ds[1].value,
                             ParserState(y.environment, y.for_loop_vars))))

RECURSIVE ParseVars(_, _)
ParseVars(ds, y) ==
    IF Len(ds) = 0 \/ y.raised # "" THEN y
    ELSE ParseVars(Tail(ds), var_declaration(ds[1], y))

RECURSIVE ParseExprs(_, _)
ParseExprs(ds, y) ==
    IF Len(ds) = 0 \/ y.raised # "" THEN y
    ELSE ParseExprs(Tail(ds),
            expr_declaration(ds[1].name, y,
                p_expression(ds[1].value,
                             ParserState(y.environment, y.for_loop_vars))))

FreshParse(prog) ==
    file_description(
        ParseExprs(prog.exprs,
            ParseVars(prog.vars,
                ParseConsts(prog.consts,
                    Parse(<<>>, <<>>, <<>>, <<>>, <<>>, "")))))

ExprsConverted(y, r) ==
    IF r.raised # "" THEN [raised |-> r.raised, expr |-> Num(0)]
    ELSE [raised |-> convert_exprs(y.ast_exprs, r.locals, 0).raised,
          expr |-> IF convert_exprs(y.ast_exprs, r.locals, 0).raised # ""
                   THEN Num(0)
                   ELSE convert_exprs(y.ast_exprs, r.locals, 0).locals["main"]]

SymbolsConverted(y, c) ==
    IF c.raised # "" THEN [raised |-> c.raised, expr |-> Num(0)]
    ELSE ExprsConverted(y,
            with_reserved_names(
                convert_symbols(y.symbol_list,
                    [var_list |-> <<>>, diff_var_list |-> <<>>,
                     locals |-> c.locals, raised |-> ""])))

\* [raised |-> the exception or "", expr |-> the returned main expression]
Returned(y) ==
    IF y.raised # "" THEN [raised |-> y.raised, expr |-> Num(0)]
    ELSE SymbolsConverted(y, convert_constants(y.const_list, <<>>))

HasMain(prog) == \E k \in 1..Len(prog.exprs) : prog.exprs[k].name = "main"

FirstMain(prog) ==
    CHOOSE k \in 1..Len(prog.exprs) :
        /\ prog.exprs[k].name = "main"
        /\ \A j \in 1..(k - 1) : prog.exprs[j].name # "main"

\* the program text cut after its main expression
UpToMain(prog) ==
    IF HasMain(prog)
    THEN [prog EXCEPT !.exprs = SubSeq(@, 1, FirstMain(prog))]
    ELSE prog

AfterMainNames(prog) ==
    IF HasMain(prog)
    THEN {prog.exprs[k].name : k \in (FirstMain(prog) + 1)..Len(prog.exprs)}
    ELSE {}

\* parse_expr_specification has just returned, in the first run
first_return == pc = "dummies" /\ Len(runs) = 0

\* C16: parse_expr_specification returns the expression named main as the
\* program text without the expressions declared after main defines it:
\* the expressions before main are bound in order, those after main are
\* never converted and do not change what is returned.
C16_AfterMainIgnored ==
    first_return =>
        /\ AfterMainNames(program_txt) \cap DOMAIN sympy_locals = {}
        /\ expr = Returned(FreshParse(UpToMain(program_txt))).expr

\* C16 for the programs in which no loop counter has the name of a
\* declared variable
C16_AfterMainIgnoredDistinctNames ==
    (first_return
     /\ \A k \in 1..Len(OwnLoopCounters(program_txt)) :
            OwnLoopCounters(program_txt)[k] \notin DeclaredVars(program_txt))
    => /\ AfterMainNames(program_txt) \cap DOMAIN sympy_locals = {}
       /\ expr = Returned(FreshParse(UpToMain(program_txt))).expr

\* a main expression built from an earlier expression was returned, or a
\* program with an expression after main returned its main expression
C16_DistinctNamesWitness ==
    /\ first_return
    /\ AfterMainNames(program_txt) = {"later"}
    /\ "later" \in DOMAIN environment
    /\ expr = Fn("Pow", <<Sym("x"), Num(2)>>)

-----------------------------------------------------------------------------
(* The constants of a program *)

NotConstant == "Right hand-side is not a constant in constant declaration"

\* every right-hand side mentions previously declared constants only
ConstantsOnly(prog) ==
    \A k \in 1..Len(prog.consts) :
        NamesIn(prog.consts[k].value)
            \subseteq {prog.consts[j].name : j \in 1..(k - 1)}

\* every right-hand side is built from literals alone
LiteralsOnly(prog) ==
    \A k \in 1..Len(prog.consts) : NamesIn(prog.consts[k].value) = {}

\* the loop over the constants has ended, one way or the other
constants_checked == pc = "symbols" \/ (pc = "raised" /\ error = NotConstant)

\* the whole text is parsed and nothing else is converted yet
OnlyConstantsConverted ==
    /\ Len(ast_exprs) = Len(program_txt.exprs)
    /\ var_list = <<>>
    /\ expr = Num(0)
    /\ DOMAIN sympy_locals \subseteq
            {program_txt.consts[k].name : k \in 1..Len(program_txt.consts)}

\* C17: when parse_expr_specification is through the const declarations,
\* the whole text has been parsed and no variable or expression has been
\* converted; the declarations are accepted exactly if every right-hand
\* side is built from literals and previously declared constants, and
\* otherwise the call has raised.
C17_ConstantsChecked ==
    constants_checked =>
        /\ OnlyConstantsConverted
        /\ (pc = "symbols") <=> ConstantsOnly(program_txt)

\* C17 with right-hand sides of literals only as the accepted ones
C17_LiteralConstantsChecked ==
    constants_checked =>
        /\ OnlyConstantsConverted
        /\ (pc = "symbols") <=> LiteralsOnly(program_txt)

\* a literal constant was accepted; a constant that names a variable raised
C17_LiteralWitness ==
    /\ pc = "symbols"
    /\ Len(program_txt.consts) = 1
    /\ sympy_locals["a"] = Num(2)

C17_RejectedWitness ==
    /\ pc = "raised"
    /\ error = NotConstant
    /\ Len(program_txt.consts) = 1
    /\ NamesIn(program_txt.consts[1].value) = {"x"}

-----------------------------------------------------------------------------
(* A vector whose size is the name of a declared number *)

\* the differentiation vectors declared with the name of an earlier number
\* variable as their size
SymbolicVectors(prog) ==
    {k \in 1..Len(prog.vars) :
        /\ prog.vars[k].kind = "vector"
        /\ prog.vars[k].mod = ""
        /\ prog.vars[k].dim[1].op = "str"
        /\ \E j \in 1..(k - 1) :
                /\ prog.vars[j].kind = "number"
                /\ prog.vars[j].name = prog.vars[k].dim[1].name}

run_ended == pc \in {"done", "raised"}

\* C18: a program that declares `number n` and then `vector v(n)` is parsed
\* and its class is generated to the end, eval, jacobian and hessian: the
\* run ends without an exception.
C18_SymbolicDimensionGenerates ==
    (run_ended /\ SymbolicVectors(program_txt) # {}) =>
        pc = "done" /\ error = ""

\* C18 up to the eval method, in the first run of a process: the size
\* resolves to the declared variable and the vector is declared as a
\* one-dimensional array parameter
C18_SymbolicDimensionParsed ==
    (run_ended /\ Len(runs) = 0 /\ SymbolicVectors(program_txt) # {}) =>
        /\ error = ""
        /\ \A k \in SymbolicVectors(program_txt) :
                /\ var_list[k].var_type = VECTOR
                /\ var_list[k].dimension
                        = <<Sym(program_txt.vars[k].dim[1].name)>>
        /\ \E i \in 1..Len(out) :
                /\ out[i].k = "func_decl"
                /\ out[i].a[3] = "eval"
                /\ out[i].a[4] = "double n, double[] v"
        /\ \E i \in 1..Len(out) : out[i].k = "func_end"

\* the run of such a program has ended
C18_ParsedWitness ==
    /\ run_ended
    /\ Len(runs) = 0
    /\ SymbolicVectors(program_txt) = {2}
    /\ Len(out) > 0

-----------------------------------------------------------------------------
(* The names a program declares *)

PairwiseDistinct(seq) ==
    \A i, j \in 1..Len(seq) : i # j => seq[i] # seq[j]

\* the names the program declares, constants first
ProgramNames(prog) ==
    [k \in 1..Len(prog.consts) |-> prog.consts[k].name]
        \o [k \in 1..Len(prog.vars) |-> prog.vars[k].name]

\* the environment holds for every declared variable the type of its
\* declaration
DeclaredTypesKept(prog, env) ==
    \A k \in 1..Len(prog.vars) :
        /\ prog.vars[k].name \in DOMAIN env
        /\ env[prog.vars[k].name] = basic_var_declaration(prog.vars[k]).type_info

parse_succeeded == pc = "dummies" /\ error = ""

\* C19: after a successful parse the declared names are pairwise distinct,
\* no parameter name occurs twice in the parameter list, and the environment
\* holds for every declared variable the type it was declared with, not that
\* of a later declaration or of a loop counter of the same name.
C19_DeclaredNamesDistinct ==
    parse_succeeded =>
        /\ PairwiseDistinct(ProgramNames(program_txt))
        /\ PairwiseDistinct(NamesOf(var_list))
        /\ DeclaredTypesKept(program_txt, environment)

\* C19 for the programs that declare no name twice and use no declared name
\* as a loop counter
C19_DistinctProgramsKeepTypes ==
    (/\ parse_succeeded
     /\ PairwiseDistinct(ProgramNames(program_txt))
     /\ \A k \in 1..Len(OwnLoopCounters(program_txt)) :
            OwnLoopCounters(program_txt)[k] \notin DeclaredVars(program_txt)) =>
        /\ PairwiseDistinct(NamesOf(var_list))
        /\ DeclaredTypesKept(program_txt, environment)

\* a vector and a number were declared under distinct names and parsed
C19_DistinctWitness ==
    /\ parse_succeeded
    /\ Len(var_list) = 2
    /\ var_list[1].var_type # var_list[2].var_type
    /\ DeclaredTypesKept(program_txt, environment)

-----------------------------------------------------------------------------
(* Characters that start no token, whitespace and comments *)

\* the characters a token can start with
TokenStarts ==
    Letters \cup Digits
        \cup {"_", "+", "-", "*", "/", "^", ".", "#", "=", "(", ")", "[",
              "]", ",", "'", ":"}

\* the lexer stands at a character that starts no token
IllegalHere ==
    lexing /\ lexdata[lexpos + 1] \notin TokenStarts \cup Whitespace

\* the lexer stands at the start of a line comment or of a closed block
\* comment
CommentHere ==
    /\ lexing
    /\ lexpos + 1 < Len(lexdata)
    /\ lexdata[lexpos + 1] = "/"
    /\ \/ lexdata[lexpos + 2] = "/"
       \/ /\ lexdata[lexpos + 2] = "*"
          /\ \E k \in (lexpos + 3)..(Len(lexdata) - 1) :
                lexdata[k] = "*" /\ lexdata[k + 1] = "/"

\* the lexer stands at whitespace or at a comment
IgnoredHere ==
    lexing /\ (lexdata[lexpos + 1] \in Whitespace \/ CommentHere)

\* the newlines among the characters consumed so far
NewlinesConsumed ==
    Cardinality({k \in 1..Len(lexdata) : k <= lexpos /\ lexdata[k] = "\n"})

IllegalSkipped ==
    IllegalHere =>
        /\ printed' = Append(printed, "Illegal character '"
                                        \o lexdata[lexpos + 1] \o "'")
        /\ lexpos' = lexpos + 1
        /\ lextokens' = lextokens
        /\ lineno' = lineno
        /\ pc' = "lex"

IgnoredSilently ==
    IgnoredHere =>
        /\ lextokens' = lextokens
        /\ printed' = printed
        /\ lexpos' > lexpos
        /\ pc' = "lex"

\* C20: at a character that starts no token the lexer prints the character,
\* moves on by exactly that one character and returns no token for it;
\* whitespace and comments are consumed without a token; the lexer never
\* raises and goes on to the end of the input; and the line counter is one
\* more than the number of newlines consumed, those inside whitespace runs
\* and block comments included.
C20_IllegalCharacterSkipped ==
    /\ [](pc # "raised")
    /\ [](lineno = 1 + NewlinesConsumed)
    /\ [](pc = "eof" => lexpos = Len(lexdata))
    /\ [][IllegalSkipped]_vars
    /\ [][IgnoredSilently]_vars
    /\ <>(pc = "eof")

\* an illegal character on the second line was reported and a token after
\* it was returned
C20_Witness ==
    /\ pc = "eof"
    /\ Len(printed) = 1
    /\ lineno = 2
    /\ \E k \in 1..Len(lexdata) :
            /\ lexdata[k] = "$"
            /\ \E i \in 1..Len(lextokens) : lextokens[i].lexpos >= k
            /\ \E j \in 1..(k - 1) : lexdata[j] = "\n"

-----------------------------------------------------------------------------
(* Numeric literals *)

\* lexdata is digits, then a point and digits if fraction, then e, a sign
\* and digits if exponent, and nothing else
IsNumeral(data, fraction, exponent) ==
    \E d \in 1..Len(data) :
        \E f \in d..Len(data) :
            /\ \A k \in 1..d : data[k] \in Digits
            /\ IF fraction
               THEN /\ f > d
                    /\ data[d + 1] = "."
                    /\ \A k \in (d + 2)..f : data[k] \in Digits
               ELSE f = d
            /\ IF exponent
               THEN /\ Len(data) >= f + 3
                    /\ data[f + 1] = "e"
                    /\ data[f + 2] \in {"+", "-"}
                    /\ \A k \in (f + 3)..Len(data) : data[k] \in Digits
               ELSE Len(data) = f

\* the text was lexed as the one token of the type, which covers all of it
OneToken(type) ==
    /\ Len(lextokens) = 1
    /\ lextokens[1].type = type
    /\ lextokens[1].lexpos = 0
    /\ printed = <<>>

\* C21: a numeral with a fraction, an exponent or both is lexed as a single
\* DOUBLE token that covers the whole numeral, and a digit string with
\* neither as a single INTEGER token.
C21_NumeralIsOneToken ==
    pc = "eof" =>
        /\ (\E fraction, exponent \in BOOLEAN :
                /\ fraction \/ exponent
                /\ IsNumeral(lexdata, fraction, exponent)) => OneToken("DOUBLE")
        /\ IsNumeral(lexdata, FALSE, FALSE) => OneToken("INTEGER")

\* C21 for the numerals that do not have both a fraction and an exponent
C21_NumeralOnePartIsOneToken ==
    pc = "eof" =>
        /\ IsNumeral(lexdata, TRUE, FALSE) => OneToken("DOUBLE")
        /\ IsNumeral(lexdata, FALSE, TRUE) => OneToken("DOUBLE")
        /\ IsNumeral(lexdata, FALSE, FALSE) => OneToken("INTEGER")

\* a numeral with an exponent and no fraction was lexed
C21_OnePartWitness ==
    /\ pc = "eof"
    /\ IsNumeral(lexdata, FALSE, TRUE)
    /\ OneToken("DOUBLE")
    /\ lextokens[1].value = [num |-> 1, exp |-> 1]

-----------------------------------------------------------------------------
(* The FileCodeWriter as the scope of codegen.gen_code *)

\* a line is written only to an open handle, which stays open
WritesToOpenHandle ==
    Len(out') > Len(out) => file_handler = "open" /\ file_handler' = "open"

\* the handle is opened only by entering the scope and a closed handle is
\* not opened again
OpenedOnEnter ==
    (file_handler # "open" /\ file_handler' = "open") =>
        pc = "gen_code" /\ file_handler = "none"

\* C22: the file is opened when the scope of gen_code is entered, lines are
\* written to an open handle only, and the handle is closed when the scope
\* is left, by a return or by an exception of the code generation: an open
\* handle is closed in the end, and a run does not begin with one open.
C22_HandleClosedOnEveryPath ==
    /\ [][WritesToOpenHandle]_vars
    /\ [][OpenedOnEnter]_vars
    /\ [](pc \in {"header", "eval", "new_jacobian", "jacobian", "new_hessian",
                   "hessian", "footer"}
            => file_handler = "open")
    /\ [](file_handler = "none" => out = <<>>)
    /\ [][(pc \in {"done", "raised"} /\ file_handler = "open")
            => (file_handler' = "closed" /\ pc' = pc /\ out' = out)]_vars
    /\ (pc \in {"done", "raised"} /\ file_handler = "open")
            ~> (file_handler = "closed")
    /\ [][pc' = "parse" => file_handler # "open"]_vars

\* the scope was left by an exception after lines had been written, and the
\* handle is closed
C22_Witness ==
    /\ pc = "raised"
    /\ file_handler = "closed"
    /\ Len(out) > 0

-----------------------------------------------------------------------------
(* The destination file of a run that was aborted *)

\* the file holds the class up to its closing brace
ClassClosed(lines) == \E i \in 1..Len(lines) : lines[i].k = "class_close"

\* C23: a run that is aborted by an exception has not opened the destination
\* file (no write site of the generators marks a file as incomplete, so a
\* file that was opened and holds less than the class is an unmarked prefix).
C23_AbortLeavesNoPartialFile ==
    pc = "raised" => (file_handler = "none" \/ ClassClosed(out))

\* C23 for the exceptions of the parser and of parse_expr_specification
C23_ParseAbortLeavesNoFile ==
    (pc = "raised" /\ error # "") => (file_handler = "none" /\ out = <<>>)

\* a parse was aborted
C23_ParseAbortWitness ==
    /\ pc = "raised"
    /\ error = "SympifyError"
    /\ file_handler = "none"

-----------------------------------------------------------------------------
(* C24: command line, then configuration file, then default.               *)

\* the value the configuration file gives for a setting, <<>> when none
file_value(key) ==
    LET items == {it \in parsed_args.config.items : str_lower(it[1]) = key}
    IN  IF items = {} THEN <<>> ELSE (CHOOSE it \in items : TRUE)[2]

\* command line first, then the file, then the default
resolved(cli, key, default) ==
    IF cli # <<>> THEN cli
    ELSE IF file_value(key) # <<>> THEN file_value(key)
    ELSE default

\* the stem of the input file with its first character in upper case
default_classname ==
    LET stem == splitext_root(basename(parsed_args.exprfile))
    IN  str_upper(<<Head(stem)>>) \o Tail(stem)

\* the flag of the command line when given, else the file's, else FALSE
resolved_nohessian ==
    IF parsed_args.nohessian THEN TRUE
    ELSE IF \E it \in parsed_args.config.items : str_lower(it[1]) = KeyNohessian
         THEN (CHOOSE it \in parsed_args.config.items :
                   str_lower(it[1]) = KeyNohessian)[2]
    ELSE FALSE

config_read == pc \in {"parse", "raised"} /\ parsed_args.config.kind # "list"

TextSettingsResolved ==
    /\ code_gen_config[KeyLang]
         = str_lower(resolved(parsed_args.lang, KeyLang, DEFAULT_LANG))
    /\ code_gen_config[KeyClassname]
         = resolved(parsed_args.cname, KeyClassname, default_classname)
    /\ code_gen_config[KeyDest] = resolved(parsed_args.dest, KeyDest, getcwd)

UnsupportedRaises ==
    (str_lower(resolved(parsed_args.lang, KeyLang, DEFAULT_LANG))
        \notin SUPPORTED_LANGS)
    <=> (pc = "raised" /\ error = "NotImplementedError"
         /\ program_txt = <<>> /\ runs = <<>> /\ lextokens = <<>>)

\* C24 as stated: every setting, the suppress-Hessian flag included, is the
\* command-line value when given, else the configuration file's value when
\* it has one, else the default; an unsupported language raises before any
\* parsing. The flag of a configuration file is never read.
C24_SettingsResolved ==
    config_read =>
        /\ UnsupportedRaises
        /\ pc = "parse" =>
              /\ TextSettingsResolved
              /\ code_gen_config[KeyNohessian] = resolved_nohessian

\* C24 for what holds: the language, the class name and the destination are
\* resolved command line first, file second, default last; the flag is the
\* command line's whatever the file says; an unsupported language raises
\* before any parsing.
C24_TextSettingsResolved ==
    config_read =>
        /\ UnsupportedRaises
        /\ pc = "parse" =>
              /\ TextSettingsResolved
              /\ code_gen_config[KeyNohessian] = parsed_args.nohessian

\* a class name taken from the file, under a language written in capitals
C24_FileValueWitness ==
    /\ pc = "parse"
    /\ parsed_args.cname = <<>>
    /\ file_value(KeyClassname) = <<"K">>
    /\ code_gen_config[KeyClassname] = <<"K">>
    /\ parsed_args.lang = <<"J", "a", "v", "a">>

-----------------------------------------------------------------------------
(* C25: the temporaries of one generated function.                         *)

\* where the functions of the output begin, and where the lines of the
\* function begun at p end
FuncStarts == {p \in 1..Len(out) : out[p].k = "func_decl"}

SegmentEnd(p) ==
    IF \E q \in FuncStarts : q > p
    THEN (CHOOSE q \in FuncStarts :
              q > p /\ \A r \in FuncStarts : r > p => q <= r) - 1
    ELSE Len(out)

Segment(p) == SubSeq(out, p + 1, SegmentEnd(p))

\* the lines that declare a temporary
DeclaresTemp(l) == l.k \in {"assign", "loop_init"}

\* the temporaries the function begun at p declares, in output order
TempDecls(p) ==
    [q \in 1..Len(SelectSeq(Segment(p), DeclaresTemp)) |->
        SelectSeq(Segment(p), DeclaresTemp)[q].a[1]]

TempName(j) == DEFAULT_TEMP_NAME \o "_" \o ToString(j)

\* the function begun at p has its return statement
HasReturn(p) == \E q \in 1..Len(Segment(p)) : Segment(p)[q].k = "return"

TempsNumberedFromZero(decls, complete) ==
    /\ \A q, r \in 1..Len(decls) : q # r => decls[q] # decls[r]
    /\ complete =>
         {decls[q] : q \in 1..Len(decls)}
            = {TempName(j) : j \in 0..(Len(decls) - 1)}

\* C25: in every generated function no temporary is declared twice, and the
\* temporaries a complete function declares are exactly __temp_0 up to
\* __temp_(k-1) for its k declarations, however many functions were written
\* before it and however deep in loops the declarations are.
C25_TemporariesPerFunction ==
    \A p \in FuncStarts : TempsNumberedFromZero(TempDecls(p), HasReturn(p))

\* a class with two functions that each declare an accumulator __temp_0
\* and at least one more temporary inside the loop
C25_Witness ==
    /\ pc = "done"
    /\ entry = "ExprClass"
    /\ \E p1, p2 \in FuncStarts :
            /\ p1 < p2
            /\ \A p \in {p1, p2} :
                  /\ Len(TempDecls(p)) >= 2
                  /\ \E q \in 1..Len(Segment(p)) :
                        /\ Segment(p)[q].k = "loop_init"
                        /\ Segment(p)[q].a[1] = TempName(0)
                        /\ Segment(p)[q + 1].k = "for"
                        /\ Segment(p)[q + 2].k = "assign"

-----------------------------------------------------------------------------
(* C26: operands first, and no temporary used before its declaration.      *)

\* the states after each operand of a node has been lowered in turn
RECURSIVE OperandRuns(_, _, _, _)
OperandRuns(vl, operands, st, rel) ==
    IF Len(operands) = 0 THEN <<>>
    ELSE <<gen_code_expr(vl, operands[1], st, rel)>>
         \o OperandRuns(vl, Tail(operands),
                        gen_code_expr(vl, operands[1], st, rel), rel)

\* the lines written between two states of one lowering
NewLines(before, after) ==
    SubSeq(after.lines, Len(before.lines) + 1, Len(after.lines))

DeclaredIn(lines, name) ==
    \E q \in 1..Len(lines) : DeclaresTemp(lines[q]) /\ lines[q].a[1] = name

IsTempName(name, n) == \E j \in 0..n : name = TempName(j)

\* each operand's name is a reference that needs no declaration or a
\* temporary declared by the lines of that operand
OperandsDeclared(start, after) ==
    \A k \in 1..Len(after) :
        IsTempName(after[k].ref, after[k].nt) =>
            DeclaredIn(NewLines(IF k = 1 THEN start ELSE after[k - 1],
                                after[k]),
                       after[k].ref)

\* r is the lowering of the composite node e whose operands were lowered
\* into the states after: all their lines, then the one statement of e over
\* their names
OperandsThenStatement(e, start, after, r) ==
    /\ r.lines = after[Len(after)].lines
                    \o <<r.lines[Len(r.lines)]>>
    /\ r.lines[Len(r.lines)].k = "assign"
    /\ r.lines[Len(r.lines)].a
            = <<r.ref, statement_rhs(get_operator_type(e),
                                     [k \in 1..Len(after) |-> after[k].ref])>>
    /\ ~DeclaredIn(after[Len(after)].lines, r.ref)
    /\ OperandsDeclared(start, after)

\* r is the lowering of the loop e from st0 whose body was lowered into
\* body: the accumulator, the headers, the body, then the one accumulation
\* of the body's name into the accumulator, then the closing braces
BodyThenAccumulation(e, st0, body, r) ==
    LET num_limits == Len(e.args) - 1
        at == Len(body.lines) + 1
    IN  /\ IsPrefix(body.lines, r.lines)
        /\ Len(r.lines) = at + num_limits
        /\ r.lines[at].k = "accum"
        /\ r.lines[at].a[1] = r.ref
        /\ r.lines[at].a[3] = body.ref
        /\ r.lines[Len(st0.lines) + 1].k = "loop_init"
        /\ r.lines[Len(st0.lines) + 1].a[1] = r.ref
        /\ \A q \in (Len(st0.lines) + 2)..(Len(st0.lines) + 1 + num_limits) :
                r.lines[q].k = "for"
        /\ \A q \in (at + 1)..Len(r.lines) : r.lines[q].k = "close"
        /\ IsTempName(body.ref, body.nt) =>
                DeclaredIn(SubSeq(body.lines,
                                  Len(st0.lines) + 2 + num_limits,
                                  Len(body.lines)),
                           body.ref)

\* the state the body of the loop e is lowered from
BodyStart(e, st0) ==
    loop_headers(Tail(e.args), loop_init(get_operator_type(e), st0))

PostOrder(vl, e, st0, rel, r) ==
    IF r.raised \/ is_singleton_op(get_operator_type(e)) THEN TRUE
    ELSE IF get_operator_type(e) \in {"SUM_LOOP", "PRODUCT_LOOP"}
        THEN BodyThenAccumulation(
                e, st0,
                gen_code_expr(vl, e.args[1], BodyStart(e, st0), rel), r)
    ELSE OperandsThenStatement(
            e, [st0 EXCEPT !.nt = @ + 1],
            OperandRuns(vl, e.args, [st0 EXCEPT !.nt = @ + 1], rel), r)

\* the line q of the output uses name, which is no temporary or is declared
\* by an earlier line of the same function in a block still open at q
DeclaredBefore(p, q, name) ==
    IsTempName(name, Len(out)) =>
        \E d \in (p + 1)..(q - 1) :
            /\ DeclaresTemp(out[d])
            /\ out[d].a[1] = name
            /\ \A m \in d..q : out[m].ind >= out[d].ind

\* the lines of the function begun at p use declared temporaries only, and
\* its return gives the temporary of the root, the first one minted
UsesDeclared(p) ==
    \A q \in (p + 1)..SegmentEnd(p) :
        /\ out[q].k = "accum" =>
                /\ DeclaredBefore(p, q, out[q].a[1])
                /\ DeclaredBefore(p, q, out[q].a[3])
                /\ IsTempName(out[q].a[1], Len(out))
        /\ out[q].k = "return" =>
                /\ DeclaredBefore(p, q, out[q].a[1])
                /\ Len(TempDecls(p)) > 0 => out[q].a[1] = TempName(0)

\* C26: a composite node's statement is written after all the statements of
\* its operands, in operand order, and it is one statement; every temporary
\* a statement, an accumulation or a return refers to is declared by an
\* earlier line of the same function in the same or an enclosing block; the
\* return refers to the temporary holding the root.
C26_PostOrderDeclaredBeforeUse ==
    /\ \A p \in FuncStarts : UsesDeclared(p)
    /\ (entry = "Expr" /\ pc # "expr") =>
        \A e \in SubExprs(expr) : \A rel \in RelOutcomes :
            PostOrder(var_list, e, GenState(1), rel,
                      gen_code_expr(var_list, e, GenState(1), rel))
    /\ (entry = "Expr" /\ pc = "done" /\ Len(TempDecls(1)) > 0) =>
            /\ out[Len(out) - 1].a[1] = TempName(0)
            /\ DeclaredIn(out, TempName(0))

\* the cosine of a sum of two composite operands, lowered completely: four
\* statements, the operands' before the sum's, the sum's before the cosine's
C26_Witness ==
    /\ entry = "Expr"
    /\ pc = "done"
    /\ expr.op = "cos"
    /\ expr.args[1].op = "Add"
    /\ TempDecls(1) = <<TempName(2), TempName(3), TempName(1), TempName(0)>>
    /\ out[Len(out) - 1] = Line("return", <<TempName(0)>>, 1)

-----------------------------------------------------------------------------
(* C27: vectors and matrices of one element are numbers.                   *)

\* an expression and the expressions below it
RECURSIVE AllNodes(_)
AllNodes(a) ==
    {a} \cup UNION {AllNodes(operand_exprs(a)[k]) :
                        k \in 1..Len(operand_exprs(a))}

SizeOne(t) ==
    \/ t.type = AstExprType_VECTOR /\ t.dimension[1] = Num(1)
    \/ /\ t.type = AstExprType_MATRIX
       /\ t.dimension = <<Num(1), Num(1)>>

\* the type the operator gives to operands of the types ts; a literal of
\* rows rows and cols columns has its own, as has a symbol
InferredType(operator, ts, rows, cols, declared) ==
    CASE operator = "SYMBOL" -> declared
      [] operator = "EXPR_COLLECTION" ->
            IF cols = 0
            THEN AstExprType(AstExprType_VECTOR, <<Num(rows), Num(1)>>)
            ELSE AstExprType(AstExprType_MATRIX, <<Num(rows), Num(cols)>>)
      [] operator \in {"TRANSPOSE", "TRANSPOSE_SHORT"} ->
            AstExprType(AstExprType_MATRIX,
                        <<ts[1].dimension[2], ts[1].dimension[1]>>)
      [] operator \in {"NORM", "DOT", "INDEXING"} -> number_type
      [] operator = "MUL" ->
            IF ts[1].type = AstExprType_NUMBER THEN ts[2]
            ELSE IF ts[2].type = AstExprType_NUMBER THEN ts[1]
            ELSE AstExprType(AstExprType_MATRIX,
                             <<ts[1].dimension[1], ts[2].dimension[2]>>)
      [] operator = "RANGE" ->
            AstExprType(AstExprType_VECTOR, <<Num(2), Num(1)>>)
      [] OTHER -> ts[1]

\* the inferred type of the node n, from its operator and the types of
\* its operands
InferredFor(n) ==
    InferredType(
        n.operator,
        [k \in 1..Len(operand_exprs(n)) |-> operand_exprs(n)[k].expr_type],
        IF n.operator = "SYMBOL" THEN 0 ELSE Len(n.operands),
        IF n.operator # "SYMBOL" /\ is_list(n.operands[1])
        THEN Len(n.operands[1].row) ELSE 0,
        IF n.operator = "SYMBOL" THEN n.operands[1].type_info
        ELSE number_type)

\* the node n is typed and tagged by the size-one rule
RetypedAndTagged(n) ==
    /\ ~SizeOne(n.expr_type)
    /\ n.size_one_mat <=> SizeOne(InferredFor(n))
    /\ n.expr_type = IF SizeOne(InferredFor(n)) THEN number_type
                     ELSE InferredFor(n)
    /\ n = AstExpression(n.operator, n.operands)

\* the text returned for a tagged node is its text in (...)[0,0], the text
\* returned for another node is not wrapped
WrappedIffTagged ==
    /\ pc = "str" =>
         sympy_str = IF ast_expr.size_one_mat
                     THEN <<"(">> \o result_str(ast_expr)
                          \o <<")", "[", "0", ",", "0", "]">>
                     ELSE result_str(ast_expr)
    /\ (pc = "ast" /\ ast_expr.size_one_mat) =>
         ~to_sympy_str_raises(ast_expr)

\* C27 as stated: every constructed node is never typed as a vector of
\* length 1 or a 1x1 matrix, is typed NUMBER and tagged exactly when its
\* inferred type was one of those, has the type its operator and operand
\* types give, keeps it, and to_sympy_str returns the text of a tagged node
\* wrapped once in (...)[0,0] and the text of other nodes unwrapped. The
\* vector literal of one element is tagged and has no text.
C27_RetypedTaggedWrapped ==
    pc \in {"ast", "str"} =>
        /\ \A n \in AllNodes(ast_expr) : RetypedAndTagged(n)
        /\ WrappedIffTagged

\* a vector literal of one element, here or below
RECURSIVE HasOneElementVector(_)
HasOneElementVector(a) ==
    \/ /\ a.operator = "EXPR_COLLECTION"
       /\ Len(a.operands) = 1
       /\ ~is_list(a.operands[1])
    \/ \E k \in 1..Len(operand_exprs(a)) :
            HasOneElementVector(operand_exprs(a)[k])

\* C27 for what holds: the same, for expressions without a vector literal
\* of one element.
C27_ExceptOneElementVector ==
    (pc \in {"ast", "str"} /\ ~HasOneElementVector(ast_expr)) =>
        /\ \A n \in AllNodes(ast_expr) : RetypedAndTagged(n)
        /\ WrappedIffTagged

\* the product of a transposed vector and a vector, a 1x1 matrix: typed as
\* a number, tagged, its text wrapped
C27_ProductWitness ==
    /\ pc = "str"
    /\ ast_expr.operator = "MUL"
    /\ ast_expr.operands[1].operator = "TRANSPOSE_SHORT"
    /\ ast_expr.size_one_mat
    /\ ast_expr.expr_type = number_type
    /\ sympy_str = <<"(", "(", "(", "w", ")", ".T", ")", "*", "(", "w", ")",
                     ")", "[", "0", ",", "0", "]">>

-----------------------------------------------------------------------------
(* C28: the text handed to the symbolic parser.                            *)

\* the brackets of text from position k on close the open ones in stack,
\* innermost first, and leave none open
RECURSIVE Nested(_, _, _)
Nested(text, k, stack) ==
    IF k > Len(text) THEN stack = <<>>
    ELSE IF text[k] \in {"(", "["}
        THEN Nested(text, k + 1, <<text[k]>> \o stack)
    ELSE IF text[k] \in {")", "]"}
        THEN /\ stack # <<>>
             /\ Head(stack) = (IF text[k] = ")" THEN "(" ELSE "[")
             /\ Nested(text, k + 1, Tail(stack))
    ELSE Nested(text, k + 1, stack)

Balanced(text) == Nested(text, 1, <<>>)

\* part occurs in text between an opening bracket or a comma and a closing
\* bracket or a comma
CompleteSubTerm(part, text) ==
    \E k \in 2..(Len(text) - Len(part)) :
        /\ SubSeq(text, k, k + Len(part) - 1) = part
        /\ text[k - 1] \in {"(", "[", ","}
        /\ text[k + Len(part)] \in {")", "]", ","}

\* C28 as stated: to_sympy_str returns a text for every node, its brackets
\* are balanced and the text of every operand is a complete sub-term of it.
\* The norm of a number lacks its closing parenthesis, and the vector
\* literal of one element has no text.
C28_TextConsumable ==
    /\ pc = "raised" => error # "TypeError"
    /\ pc = "str" =>
        /\ Balanced(sympy_str)
        /\ \A k \in 1..Len(operand_exprs(ast_expr)) :
                CompleteSubTerm(to_sympy_str(operand_exprs(ast_expr)[k]),
                                sympy_str)

\* the norm of an expression typed as a number, here or below
RECURSIVE HasNormOfNumber(_)
HasNormOfNumber(a) ==
    \/ /\ a.operator = "NORM"
       /\ a.operands[1].expr_type.type = AstExprType_NUMBER
    \/ \E k \in 1..Len(operand_exprs(a)) :
            HasNormOfNumber(operand_exprs(a)[k])

\* C28 for what holds: the text of an expression without the norm of a
\* number and without a vector literal of one element is balanced and has
\* every operand's text as a complete sub-term.
C28_ExceptNormOfNumber ==
    /\ (pc = "raised" /\ error = "TypeError") =>
            HasOneElementVector(ast_expr)
    /\ (pc = "str" /\ ~HasNormOfNumber(ast_expr)) =>
        /\ Balanced(sympy_str)
        /\ \A k \in 1..Len(operand_exprs(ast_expr)) :
                CompleteSubTerm(to_sympy_str(operand_exprs(ast_expr)[k]),
                                sympy_str)

\* the norm of the sum of a 2x2 matrix and a number, as text
C28_MatrixNormWitness ==
    /\ pc = "str"
    /\ ast_expr.operator = "NORM"
    /\ ast_expr.operands[1].operator = "ADD"
    /\ ast_expr.operands[1].expr_type.type = AstExprType_MATRIX
    /\ Len(sympy_str) > Len(to_sympy_str(ast_expr.operands[1]))
    /\ Balanced(sympy_str)

-----------------------------------------------------------------------------
(* C29: the bound symbols after distinguish_dummy_vars.                    *)

\* the symbols bound by the loops of an expression
RECURSIVE BoundSymbols(_)
BoundSymbols(e) ==
    (IF e.op \in {"Sum", "Product"}
     THEN {e.args[k].args[1] : k \in 2..Len(e.args)} ELSE {})
    \cup UNION {BoundSymbols(e.args[k]) : k \in 1..Len(e.args)}

\* the names of the symbols of an expression that no loop binds
FreeNames(e) == FreeSymbols(e)

\* the names bound symbols have before the pass: the loop counters of the
\* program text, and k, the summation index of a matrix product
NamesBeforePass ==
    {for_loop_vars[k].name : k \in 1..Len(for_loop_vars)} \cup {"k"}

DistinctlyRenamed(bound, free) ==
    /\ \A b \in bound : b.name \notin NamesBeforePass
    /\ \A b, c \in bound : b # c => b.name # c.name
    /\ \A b \in bound : b.name \notin free

\* C29 as stated: after distinguish_dummy_vars every bound loop symbol of
\* the expression has a new name, and the names of the bound symbols are
\* pairwise distinct and distinct from the free symbols' names. The counter
\* of a for loop is a Symbol, not a Dummy, and keeps its name.
C29_BoundSymbolsRenamed ==
    (pc = "gen_code" /\ error = "") =>
        DistinctlyRenamed(BoundSymbols(expr), FreeNames(expr))

\* C29 for what holds: the Dummy atoms, which are the summation indices of
\* matrix products, have new names that are pairwise distinct and distinct
\* from the free symbols' names.
C29_DummiesRenamed ==
    (pc = "gen_code" /\ error = "") =>
        DistinctlyRenamed(dummy_atoms(expr), FreeNames(expr))

\* two dot products in one expression, their indices renamed apart
C29_TwoDummiesWitness ==
    /\ pc = "gen_code"
    /\ error = ""
    /\ Cardinality(dummy_atoms(expr)) = 2
    /\ {b.name : b \in dummy_atoms(expr)} = {"k0", "k1"}

-----------------------------------------------------------------------------
(* C30: the indentation level of the writer.                               *)

\* the lines that open a block and the lines that close one
OpensBlock(l) ==
    l.k \in {"class_open", "func_decl", "for", "for_lt", "if_ne"}
ClosesBlock(l) ==
    l.k \in {"close", "func_end", "method_close", "class_close"}

\* how many blocks are open after the first q lines of the output
OpenBlocks(q) ==
    Cardinality({r \in 1..q : OpensBlock(out[r])})
    - Cardinality({r \in 1..q : ClosesBlock(out[r])})

\* every line is written at the level of the blocks open around it, a
\* closing brace at the level of the block it closes
WrittenAtBlockLevel ==
    \A q \in 1..Len(out) :
        /\ out[q].ind >= 0
        /\ out[q].ind = IF ClosesBlock(out[q]) THEN OpenBlocks(q)
                        ELSE OpenBlocks(q - 1)

\* C30: the level is never negative and untab at 0 stays at 0; every line is
\* written at the level of the blocks that enclose it, so that its prefix is
\* that many indentation units; when the generation is complete every block
\* is closed and the level is 0 again, as it was on the new writer, so no
\* untab met level 0 while a tab was unmatched.
C30_IndentationBalanced ==
    /\ num_tab >= 0
    /\ untab(0) = 0
    /\ pc # "raised" => WrittenAtBlockLevel
    /\ pc # "raised" => num_tab = OpenBlocks(Len(out))
    /\ pc = "done" => num_tab = 0 /\ OpenBlocks(Len(out)) = 0

\* a complete class with the reflective bodies, whose eval has a loop: lines
\* at the levels 0 to 3 and deeper, and the level back at 0
C30_Witness ==
    /\ pc = "done"
    /\ entry = "ExprClass"
    /\ ~nohessian
    /\ num_tab = 0
    /\ 0..3 \subseteq {out[q].ind : q \in 1..Len(out)}
    /\ \E q \in 1..Len(out) : out[q].k = "for"
    /\ \E q \in 1..Len(out) : out[q].k = "get_method"

====
